---- MODULE Spec2Model ----
(***************************************************************************)
(* A model of the Robot Framework documentation server                     *)
(* (src/RobotFramework-MCP-server/rf_docs_server.py): the section parser,  *)
(* the embedded libdoc extractor and keyword normalizer, and the refresh   *)
(* cycle that persists the two index snapshots.                            *)
(*                                                                         *)
(* Text is a sequence of one-character strings.  Python positions are      *)
(* 0-based; the positions here are 1-based.                                *)
(***************************************************************************)
EXTENDS Integers, Sequences, FiniteSets, TLC

VARIABLES
    \* _parse_library_keywords: one call, statement by statement
    html_content, lpc, start_pos, i, depth, in_string, escape,
    libdoc_json, libdoc_data, kw_list, kw_pos, keywords, result,
    \* DocumentationParser: the object, the events fed to it so far, and the
    \* value get_sections returned
    parser, fed, ppc, returned,
    \* fetch_rf_documentation: the call in progress, the files of the cache
    \* directory, and what the call in progress has done so far
    fpc, calls, force_refresh, results, lib_pos, all_keywords, total_keywords,
    docs_file, library_files, index_file, keywords_index_file,
    cached_at_call, attempted, parsed, written, trace,
    \* the tools: the call in progress or made last, and its result
    tpc, tool_call, tool_result,
    \* run_robocop_audit (server.py): one call, and the paths it gave to the
    \* robocop subprocess
    apc, target_path, report_format, safe_path, handed, audit_result,
    \* refreshes running together: each one's position and local values, and
    \* what a reader read last
    refresh, observed

libVars == <<html_content, lpc, start_pos, i, depth, in_string, escape,
             libdoc_json, libdoc_data, kw_list, kw_pos, keywords, result>>

parserVars == <<parser, fed, ppc, returned>>

fetchVars == <<fpc, calls, force_refresh, results, lib_pos, all_keywords, total_keywords,
               docs_file, library_files, index_file, keywords_index_file,
               cached_at_call, attempted, parsed, written, trace>>

toolVars == <<tpc, tool_call, tool_result>>

auditVars == <<apc, target_path, report_format, safe_path, handed, audit_result>>

concurrentVars == <<refresh, observed>>

vars == <<libVars, parserVars, fetchVars, toolVars, auditVars, concurrentVars>>

\* What a call of one component leaves alone.
notLibVars == <<parserVars, fetchVars, toolVars, auditVars, concurrentVars>>
notParserVars == <<libVars, fetchVars, toolVars, auditVars, concurrentVars>>
notFetchVars == <<libVars, parserVars, toolVars, auditVars, concurrentVars>>
notAuditVars == <<libVars, parserVars, fetchVars, toolVars, concurrentVars>>

\* ------------------------------------------------------------------ bounds
\* Longest text after the marker's opening brace that is enumerated exhaustively.
MaxLen == 5
\* Longest "keywords" list of an enumerated libdoc object.
MaxKw == 2

\* ------------------------------------------------------------ text helpers
RECURSIVE Concat(_)
Concat(ss) ==
    IF ss = <<>> THEN <<>> ELSE Head(ss) \o Concat(Tail(ss))

RECURSIVE SeqsUpTo(_, _)
SeqsUpTo(S, n) ==
    IF n = 0 THEN {<<>>}
    ELSE LET shorter == SeqsUpTo(S, n - 1)
         IN  shorter \cup {Append(s, c) : s \in {t \in shorter : Len(t) = n - 1}, c \in S}

\* str.replace(old, new) for a one-character old
RECURSIVE Replace(_, _, _)
Replace(s, old, new) ==
    IF s = <<>> THEN <<>>
    ELSE (IF Head(s) = old THEN new ELSE <<Head(s)>>) \o Replace(Tail(s), old, new)

\* the position of the first c in s at or after p, or 0
RECURSIVE IndexFrom(_, _, _)
IndexFrom(s, c, p) ==
    IF p > Len(s) THEN 0
    ELSE IF s[p] = c THEN p
    ELSE IndexFrom(s, c, p + 1)

\* ------------------------------------------------- re.search(r'libdoc\s*=\s*\{')
IsSpace(c) == c \in {" ", "\n", "\t"}

RECURSIVE SkipSpace(_, _)
SkipSpace(s, p) ==
    IF p <= Len(s) /\ IsSpace(s[p]) THEN SkipSpace(s, p + 1) ELSE p

LibdocWord == <<"l", "i", "b", "d", "o", "c">>

\* The position of the "{" that ends a match starting at p, or 0 when the
\* pattern does not match at p.
MarkerMatchAt(s, p) ==
    IF p + 5 <= Len(s) /\ SubSeq(s, p, p + 5) = LibdocWord
    THEN LET q == SkipSpace(s, p + 6)
         IN  IF q <= Len(s) /\ s[q] = "="
             THEN LET r == SkipSpace(s, q + 1)
                  IN  IF r <= Len(s) /\ s[r] = "{" THEN r ELSE 0
             ELSE 0
    ELSE 0

\* start_match.end() - 1 of the leftmost match (the opening brace), or 0 for
\* no match (start_match is None).
ReSearchLibdoc(s) ==
    LET hits == {p \in 1..Len(s) : MarkerMatchAt(s, p) # 0}
    IN  IF hits = {} THEN 0
        ELSE MarkerMatchAt(s, CHOOSE p \in hits : \A q \in hits : p <= q)

\* --------------------------------------------------- the brace-counting scan
\* One iteration of the for loop on the character char.  done is set by the
\* break, when depth returns to 0.
ScanInit == [depth |-> 0, in_string |-> FALSE, escape |-> FALSE, done |-> FALSE]

ScanCharNaive(st, char) ==
    IF char = "{" THEN [st EXCEPT !.depth = st.depth + 1]
    ELSE IF char = "}"
    THEN [st EXCEPT !.depth = st.depth - 1, !.done = (st.depth - 1 = 0)]
    ELSE st

ScanCharNoEscape(st, char) ==
    IF char = "\""
    THEN [st EXCEPT !.in_string = ~st.in_string]
    ELSE IF ~st.in_string
    THEN ScanCharNaive(st, char)
    ELSE st

ScanCharNoStop(st, char) ==
    [ScanCharNoEscape(st, char) EXCEPT !.done = FALSE]

ScanChar(st, char) ==
    IF st.escape
    THEN [st EXCEPT !.escape = FALSE]
    ELSE IF char = "\\"
    THEN [st EXCEPT !.escape = TRUE]
    ELSE IF char = "\"" /\ ~st.escape
    THEN [st EXCEPT !.in_string = ~st.in_string]
    ELSE IF ~st.in_string
    THEN IF char = "{"
         THEN [st EXCEPT !.depth = st.depth + 1]
         ELSE IF char = "}"
         THEN [st EXCEPT !.depth = st.depth - 1, !.done = (st.depth - 1 = 0)]
         ELSE st
    ELSE st

\* The whole loop from position p: end_pos - 1 (the closing brace), or 0 when
\* the for loop's else branch is taken.
RECURSIVE ScanFrom(_, _, _)
ScanFrom(s, p, st) ==
    IF p > Len(s) THEN 0
    ELSE LET nx == ScanChar(st, s[p])
         IN  IF nx.done THEN p ELSE ScanFrom(s, p + 1, nx)

\* ------------------------------------------------------------- JSON values
\* A decoded JSON value, tagged with its Python type: str (s), int (n),
\* bool (n is 0 or 1), None, list (a), dict (m: the items in insertion order,
\* each <<key, value>>, the keys distinct).
JStr(s) == [t |-> "str", s |-> s, n |-> 0, a |-> <<>>, m |-> <<>>]
JNum(n) == [t |-> "num", s |-> <<>>, n |-> n, a |-> <<>>, m |-> <<>>]
JBool(b) == [t |-> "bool", s |-> <<>>, n |-> IF b THEN 1 ELSE 0, a |-> <<>>, m |-> <<>>]
JNull == [t |-> "null", s |-> <<>>, n |-> 0, a |-> <<>>, m |-> <<>>]
JArr(a) == [t |-> "arr", s |-> <<>>, n |-> 0, a |-> a, m |-> <<>>]
JObj(m) == [t |-> "obj", s |-> <<>>, n |-> 0, a |-> <<>>, m |-> m]

DictPutAppend(m, key, value) == Append(m, <<key, value>>)

\* d[key] = value on the items of a dict: a present key keeps its place.
DictPut(m, key, value) ==
    IF \E j \in 1..Len(m) : m[j][1] = key
    THEN [j \in 1..Len(m) |-> IF m[j][1] = key THEN <<key, value>> ELSE m[j]]
    ELSE Append(m, <<key, value>>)

\* dict.get(key, default)
DictGet(v, key, default) ==
    IF \E j \in 1..Len(v.m) : v.m[j][1] = key
    THEN v.m[CHOOSE j \in 1..Len(v.m) : v.m[j][1] = key][2]
    ELSE default

\* bool(v)
Truthy(v) ==
    CASE v.t = "str" -> v.s # <<>>
      [] v.t = "num" -> v.n # 0
      [] v.t = "bool" -> v.n # 0
      [] v.t = "null" -> FALSE
      [] v.t = "arr" -> v.a # <<>>
      [] v.t = "obj" -> v.m # <<>>

\* for x in v: the items, or ok = FALSE for the TypeError of a value that is
\* not iterable.  A dict yields its keys, a str its characters.
Iterate(v) ==
    CASE v.t = "arr" -> [ok |-> TRUE, items |-> v.a]
      [] v.t = "obj" -> [ok |-> TRUE, items |-> [j \in 1..Len(v.m) |-> JStr(v.m[j][1])]]
      [] v.t = "str" -> [ok |-> TRUE, items |-> [j \in 1..Len(v.s) |-> JStr(<<v.s[j]>>)]]
      [] OTHER -> [ok |-> FALSE, items |-> <<>>]

\* ---------------------------------------------------------- json.loads
\* A recursive-descent decoder of the JSON grammar over the model's
\* characters: objects, arrays, strings with backslash escapes, unsigned
\* integers and the three literals.  \b and \uXXXX escapes, fractions and
\* signs are outside the model's alphabet and are rejected.
Digits == <<"0", "1", "2", "3", "4", "5", "6", "7", "8", "9">>
IsDigit(c) == \E d \in 1..10 : Digits[d] = c
DigitValue(c) == (CHOOSE d \in 1..10 : Digits[d] = c) - 1

JFail == [ok |-> FALSE, v |-> JNull, p |-> 0]
JOk(v, p) == [ok |-> TRUE, v |-> v, p |-> p]

LitAt(s, p, word) == p + Len(word) - 1 <= Len(s) /\ SubSeq(s, p, p + Len(word) - 1) = word

Unescape(c) ==
    CASE c = "n" -> "\n"
      [] c = "t" -> "\t"
      [] c = "r" -> "\r"
      [] c = "f" -> "\f"
      [] OTHER -> c

\* p is the position after the opening quote; the result's p is the position
\* after the closing one.
RECURSIVE JsonString(_, _, _)
JsonString(s, p, acc) ==
    IF p > Len(s) THEN JFail
    ELSE IF s[p] = "\"" THEN JOk(JStr(acc), p + 1)
    ELSE IF s[p] = "\\"
    THEN IF p + 1 <= Len(s) /\ s[p + 1] \in {"\"", "\\", "/", "n", "t", "r", "f"}
         THEN JsonString(s, p + 2, Append(acc, Unescape(s[p + 1])))
         ELSE JFail
    ELSE IF s[p] \in {"\n", "\t", "\r", "\f"} THEN JFail
    ELSE JsonString(s, p + 1, Append(acc, s[p]))

RECURSIVE JsonNumber(_, _, _)
JsonNumber(s, p, acc) ==
    IF p <= Len(s) /\ IsDigit(s[p])
    THEN JsonNumber(s, p + 1, 10 * acc + DigitValue(s[p]))
    ELSE JOk(JNum(acc), p)

RECURSIVE JsonValue(_, _)
RECURSIVE JsonMembers(_, _, _)
RECURSIVE JsonElements(_, _, _)

\* p is the position of a member's key; acc holds the members before it.
JsonMembers(s, p, acc) ==
    IF p > Len(s) \/ s[p] # "\"" THEN JFail
    ELSE LET k == JsonString(s, p + 1, <<>>)
             c == SkipSpace(s, k.p)
         IN  IF ~k.ok \/ c > Len(s) \/ s[c] # ":" THEN JFail
             ELSE LET v == JsonValue(s, SkipSpace(s, c + 1))
                      e == SkipSpace(s, v.p)
                      m == DictPut(acc, k.v.s, v.v)
                  IN  IF ~v.ok \/ e > Len(s) THEN JFail
                      ELSE IF s[e] = "}" THEN JOk(JObj(m), e + 1)
                      ELSE IF s[e] = "," THEN JsonMembers(s, SkipSpace(s, e + 1), m)
                      ELSE JFail

\* p is the position of an element; acc holds the elements before it.
JsonElements(s, p, acc) ==
    LET v == JsonValue(s, p)
        e == SkipSpace(s, v.p)
    IN  IF ~v.ok \/ e > Len(s) THEN JFail
        ELSE IF s[e] = "]" THEN JOk(JArr(Append(acc, v.v)), e + 1)
        ELSE IF s[e] = "," THEN JsonElements(s, SkipSpace(s, e + 1), Append(acc, v.v))
        ELSE JFail

JsonValue(s, p) ==
    IF p > Len(s) THEN JFail
    ELSE IF s[p] = "{"
    THEN LET q == SkipSpace(s, p + 1)
         IN  IF q <= Len(s) /\ s[q] = "}" THEN JOk(JObj(<<>>), q + 1)
             ELSE JsonMembers(s, q, <<>>)
    ELSE IF s[p] = "["
    THEN LET q == SkipSpace(s, p + 1)
         IN  IF q <= Len(s) /\ s[q] = "]" THEN JOk(JArr(<<>>), q + 1)
             ELSE JsonElements(s, q, <<>>)
    ELSE IF s[p] = "\"" THEN JsonString(s, p + 1, <<>>)
    ELSE IF s[p] = "0" THEN JOk(JNum(0), p + 1)
    ELSE IF IsDigit(s[p]) THEN JsonNumber(s, p, 0)
    ELSE IF LitAt(s, p, <<"n", "u", "l", "l">>) THEN JOk(JNull, p + 4)
    ELSE IF LitAt(s, p, <<"t", "r", "u", "e">>) THEN JOk(JBool(TRUE), p + 4)
    ELSE IF LitAt(s, p, <<"f", "a", "l", "s", "e">>) THEN JOk(JBool(FALSE), p + 5)
    ELSE JFail

\* json.loads(s): ok = FALSE stands for json.JSONDecodeError.
JsonLoads(s) ==
    LET r == JsonValue(s, SkipSpace(s, 1))
    IN  IF r.ok /\ SkipSpace(s, r.p) > Len(s) THEN r ELSE JFail

\* ------------------------------------------------------- keyword normalizer
K_keywords == <<"k", "e", "y", "w", "o", "r", "d", "s">>
K_name == <<"n", "a", "m", "e">>
K_args == <<"a", "r", "g", "s">>
K_repr == <<"r", "e", "p", "r">>
K_shortdoc == <<"s", "h", "o", "r", "t", "d", "o", "c">>
K_source == <<"s", "o", "u", "r", "c", "e">>
K_lineno == <<"l", "i", "n", "e", "n", "o">>

\* sep.join(parts)
RECURSIVE Join(_, _)
Join(parts, sep) ==
    IF parts = <<>> THEN <<>>
    ELSE IF Len(parts) = 1 THEN parts[1]
    ELSE parts[1] \o sep \o Join(Tail(parts), sep)

\* re.sub(r'<[^>]+>', '', doc): a match starts at a "<" whose next character
\* is not ">" and ends at the first ">" after it.
RECURSIVE StripTags(_, _)
StripTags(doc, p) ==
    IF p > Len(doc) THEN <<>>
    ELSE LET e == IndexFrom(doc, ">", p + 1)
         IN  IF doc[p] = "<" /\ e > p + 1
             THEN StripTags(doc, e + 1)
             ELSE <<doc[p]>> \o StripTags(doc, p + 1)

\* re.sub of the inline-code pattern (two backticks, a group of one or more
\* characters that are not backticks, two backticks) by the group.  A TLA+
\* string cannot hold a backtick: the string "BQ" stands for that character.
Backtick == "BQ"

RECURSIVE UnwrapCode(_, _)
UnwrapCode(doc, p) ==
    IF p > Len(doc) THEN <<>>
    ELSE LET e == IndexFrom(doc, Backtick, p + 2)
         IN  IF /\ p + 1 <= Len(doc) /\ doc[p] = Backtick /\ doc[p + 1] = Backtick
                /\ e > p + 2 /\ e + 1 <= Len(doc) /\ doc[e + 1] = Backtick
             THEN SubSeq(doc, p + 2, e - 1) \o UnwrapCode(doc, e + 2)
             ELSE <<doc[p]>> \o UnwrapCode(doc, p + 1)

\* The body of the inner loop over kw_data.get("args", []): ok = FALSE for the
\* AttributeError or TypeError of an args value or element of the wrong type.
ArgsParts(kw_data) ==
    LET it == Iterate(DictGet(kw_data, K_args, JArr(<<>>)))
        reprs == [j \in 1..Len(it.items) |-> DictGet(it.items[j], K_repr, JStr(<<>>))]
        parts == SelectSeq(reprs, Truthy)
    IN  IF ~it.ok \/ \E j \in 1..Len(it.items) : it.items[j].t # "obj"
        THEN [ok |-> FALSE, parts |-> <<>>]
        ELSE IF \E j \in 1..Len(parts) : parts[j].t # "str"
        THEN [ok |-> FALSE, parts |-> <<>>]
        ELSE [ok |-> TRUE, parts |-> [j \in 1..Len(parts) |-> parts[j].s]]

KeywordRecord(name, kw_data, args_str, doc, library_name) ==
    [name |-> name,
     id |-> Replace(name, " ", <<"%", "2", "0">>),
     args |-> args_str,
     doc |-> doc,
     library |-> library_name,
     source |-> DictGet(kw_data, K_source, JStr(<<>>)),
     lineno |-> DictGet(kw_data, K_lineno, JStr(<<>>))]

\* One iteration of the loop over the "keywords" list, on the entry kw_data
\* with the dict kws built so far (its items, each <<name, record>>):
\* raised = TRUE when the body raises (an entry, an argument, a name or a
\* shortdoc of the wrong type), which leaves the loop for the handler of
\* Exception.
KeywordEntryKeepEmpty(kws, kw_data, library_name) ==
    LET name == DictGet(kw_data, K_name, JStr(<<>>))
        args == ArgsParts(kw_data)
        doc == DictGet(kw_data, K_shortdoc, JStr(<<>>))
    IN  IF kw_data.t # "obj" \/ ~args.ok \/ doc.t # "str" \/ name.t # "str"
        THEN [raised |-> TRUE, keywords |-> kws]
        ELSE [raised |-> FALSE,
              keywords |-> DictPut(kws, name.s,
                  KeywordRecord(name.s, kw_data, Join(args.parts, <<",", " ">>),
                                UnwrapCode(StripTags(doc.s, 1), 1), library_name))]

KeywordEntry(kws, kw_data, library_name) ==
    IF kw_data.t # "obj"
    THEN [raised |-> TRUE, keywords |-> kws]
    ELSE LET name == DictGet(kw_data, K_name, JStr(<<>>))
             args == ArgsParts(kw_data)
             doc == DictGet(kw_data, K_shortdoc, JStr(<<>>))
         IN  IF ~Truthy(name)
             THEN [raised |-> FALSE, keywords |-> kws]
             ELSE IF ~args.ok \/ doc.t # "str" \/ name.t # "str"
             THEN [raised |-> TRUE, keywords |-> kws]
             ELSE [raised |-> FALSE,
                   keywords |-> DictPut(kws, name.s,
                       KeywordRecord(name.s, kw_data, Join(args.parts, <<",", " ">>),
                                     UnwrapCode(StripTags(doc.s, 1), 1), library_name))]

\* ------------------------------------------- results of _parse_library_keywords
NotFoundResult == [success |-> FALSE, error |-> "Could not find libdoc in HTML"]
UnbalancedResult == [success |-> FALSE, error |-> "Could not find end of libdoc JSON"]
JsonErrorResult == [success |-> FALSE, error |-> "JSON parsing error"]
ParsingErrorResult == [success |-> FALSE, error |-> "Parsing error"]
SuccessResult(library_name, kws) ==
    [success |-> TRUE, library |-> library_name, keywords |-> kws,
     total_keywords |-> Len(kws)]

\* The loop over the "keywords" list from entry p on.
RECURSIVE KeywordsFrom(_, _, _, _)
KeywordsFrom(kws, items, p, library_name) ==
    IF p > Len(items) THEN SuccessResult(library_name, kws)
    ELSE LET e == KeywordEntry(kws, items[p], library_name)
         IN  IF e.raised THEN ParsingErrorResult
             ELSE KeywordsFrom(e.keywords, items, p + 1, library_name)

\* _parse_library_keywords(library_name) on a library file that exists and
\* holds the text html, stage by stage: the marker search, the scan,
\* json.loads and the loop over the keywords.  Each stage's value is bound
\* through a one-element set, so that it is computed once.
ParseLoaded(library_name, r) ==
    IF ~r.ok THEN JsonErrorResult
    ELSE LET outcomes ==
                 {IF ~it.ok THEN ParsingErrorResult
                  ELSE KeywordsFrom(<<>>, it.items, 1, library_name) :
                      it \in {Iterate(DictGet(r.v, K_keywords, JArr(<<>>)))}}
         IN  CHOOSE res \in outcomes : TRUE

ParseScanned(library_name, html, m, e) ==
    IF e = 0 THEN UnbalancedResult
    ELSE LET outcomes ==
                 {ParseLoaded(library_name, r) : r \in {JsonLoads(SubSeq(html, m, e))}}
         IN  CHOOSE res \in outcomes : TRUE

ParseLibraryKeywords(library_name, html) ==
    LET outcomes ==
            {IF m = 0 THEN NotFoundResult
             ELSE CHOOSE res \in {ParseScanned(library_name, html, m, e) :
                                      e \in {ScanFrom(html, m, ScanInit)}} : TRUE :
                 m \in {ReSearchLibdoc(html)}}
    IN  CHOOSE res \in outcomes : TRUE

\* ------------------------------------------------ library files of the model
\* json.dumps without spaces: the text of a decoded value.
EncodeStr(s) ==
    <<"\"">>
    \o Concat([j \in 1..Len(s) |->
                  IF s[j] \in {"\"", "\\"} THEN <<"\\", s[j]>> ELSE <<s[j]>>])
    \o <<"\"">>

RECURSIVE EncodeNum(_)
EncodeNum(n) ==
    IF n < 10 THEN <<Digits[n + 1]>>
    ELSE EncodeNum(n \div 10) \o <<Digits[(n % 10) + 1]>>

RECURSIVE Encode(_)
Encode(v) ==
    CASE v.t = "str" -> EncodeStr(v.s)
      [] v.t = "num" -> EncodeNum(v.n)
      [] v.t = "bool" -> IF v.n = 1 THEN <<"t", "r", "u", "e">> ELSE <<"f", "a", "l", "s", "e">>
      [] v.t = "null" -> <<"n", "u", "l", "l">>
      [] v.t = "arr" ->
           <<"[">> \o Join([j \in 1..Len(v.a) |-> Encode(v.a[j])], <<",">>) \o <<"]">>
      [] v.t = "obj" ->
           <<"{">>
           \o Join([j \in 1..Len(v.m) |->
                       EncodeStr(v.m[j][1]) \o <<":">> \o Encode(v.m[j][2])], <<",">>)
           \o <<"}">>

\* A libdoc page: markup, the script's assignment, and text after the object.
LibdocPage(v) ==
    <<"<", "s", ">", " ">> \o LibdocWord \o <<" ", "=", " ">> \o Encode(v) \o <<";", "}", "<">>

\* Entries of a "keywords" list: well-shaped ones, ones without a usable
\* name, and ones of an unexpected shape.
EntryA == JObj(<<<<K_name, JStr(<<"A">>)>>>>)
EntryAB ==
    JObj(<< <<K_name, JStr(<<"A", " ", "B">>)>>,
            <<K_args, JArr(<< JObj(<< <<K_repr, JStr(<<"x">>)>> >>),
                              JObj(<< <<K_repr, JStr(<<>>)>> >>),
                              JObj(<< <<K_repr, JStr(<<"y">>)>> >>) >>)>> >>)
EntryDoc ==
    JObj(<< <<K_name, JStr(<<"D">>)>>,
            <<K_shortdoc, JStr(<<"<", "b", ">", "d", "<", "/", "b", ">", " ",
                                 Backtick, Backtick, "{", "c", Backtick, Backtick>>)>>,
            <<K_source, JStr(<<"f">>)>>,
            <<K_lineno, JNum(12)>> >>)
EntryAgain == JObj(<< <<K_name, JStr(<<"A">>)>>, <<K_shortdoc, JStr(<<"z">>)>> >>)
EntryEmptyName == JObj(<< <<K_name, JStr(<<>>)>>, <<K_shortdoc, JStr(<<"e">>)>> >>)
EntryNoName == JObj(<< <<K_shortdoc, JStr(<<"m">>)>> >>)
EntryNullName == JObj(<< <<K_name, JNull>> >>)
EntryNumber == JNum(5)
EntryBadArgs == JObj(<< <<K_name, JStr(<<"C">>)>>, <<K_args, JArr(<<JNum(7)>>)>> >>)
EntryNumName == JObj(<< <<K_name, JNum(7)>> >>)

GoodEntries == {EntryA, EntryAB, EntryDoc, EntryAgain}
NamelessEntries == {EntryEmptyName, EntryNoName, EntryNullName}
BadEntries == {EntryNumber, EntryBadArgs, EntryNumName}
Entries == GoodEntries \cup NamelessEntries \cup BadEntries

LibdocWith(entries) ==
    JObj(<< <<K_name, JStr(<<"L">>)>>, <<K_keywords, JArr(entries)>> >>)

\* The libdoc objects of the model: every "keywords" list of at most MaxKw
\* entries, an object without "keywords", and one whose "keywords" is no list.
Libdocs ==
    {LibdocWith(es) : es \in SeqsUpTo(Entries, MaxKw)}
    \cup {JObj(<<>>), JObj(<< <<K_keywords, JNum(3)>> >>)}

\* The characters the scan tells apart, and one it does not.
ScanAlphabet == {"{", "}", "\"", "\\", "a"}
Marker == LibdocWord \o <<"=">>

\* Every text that runs from the marker's opening brace for at most MaxLen
\* further characters.
ShortPages == {Marker \o <<"{">> \o tail : tail \in SeqsUpTo(ScanAlphabet, MaxLen)}

\* Pages the marker pattern does not match.
NoMarkerPages ==
    { <<>>,
      LibdocWord,
      LibdocWord \o <<"=">>,
      LibdocWord \o <<" ", "{", "}">>,
      <<"{", "}">>,
      LibdocWord \o <<"=", "a", "{", "}">> }

\* Pages with white space around the "=": an object with a brace inside a
\* string, one with an escaped quote inside a string, an unclosed object, a
\* page with text and a second marker around the object, a page with one
\* keyword and text after the object.
PageBraceInString ==
    LibdocWord \o <<" ", "=", " ">>
    \o <<"{", "\"", "a", "\"", ":", "\"", "}", "{", "\"", ",", "\"", "b", "\"", ":", "1", "}">>
PageEscapedQuote ==
    LibdocWord \o <<"=">>
    \o <<"{", "\"", "a", "\"", ":", "\"", "\\", "\"", "}", "\"", "}">>
PageUnclosed ==
    LibdocWord \o <<"\n", "=", "\t", "{", "\"", "a", "\"", ":", "1">>
PageTwoMarkers ==
    <<"{">> \o LibdocWord \o <<" ", " ", "=", "{", "}", "}">> \o Marker \o <<"{", "{", "}">>
PageOneKeyword ==
    Marker \o Encode(JObj(<< <<K_keywords, JArr(<<EntryA>>)>> >>)) \o <<";", "}">>
ExamplePages ==
    {PageBraceInString, PageEscapedQuote, PageUnclosed, PageTwoMarkers, PageOneKeyword}

\* The pages of the specification of the scan, and those of the
\* specification of the normalizer: the libdoc pages, one cut off inside its
\* object and one without a script.
ScanPages == ShortPages \cup NoMarkerPages \cup ExamplePages
LibdocPages ==
    {LibdocPage(v) : v \in Libdocs}
    \cup {SubSeq(LibdocPage(LibdocWith(<<EntryA>>)), 1, 40), <<"<", "s", ">">>}

\* ------------------------------------------------------ DocumentationParser
\* Most events of one document.
MaxEvents == 4

HeadingTags == {"h1", "h2", "h3", "h4"}

\* int(tag[1])
TagRank(tag) ==
    CASE tag = "h1" -> 1
      [] tag = "h2" -> 2
      [] tag = "h3" -> 3
      [] tag = "h4" -> 4

\* dict(attrs).get(key, default): of two attributes of one name the later wins
AttrsGet(attrs, key, default) ==
    IF \E j \in 1..Len(attrs) : attrs[j][1] = key
    THEN attrs[CHOOSE j \in 1..Len(attrs) :
                   /\ attrs[j][1] = key
                   /\ \A k \in (j + 1)..Len(attrs) : attrs[k][1] # key][2]
    ELSE default

\* str.strip()
RECURSIVE LStrip(_)
LStrip(s) ==
    IF s # <<>> /\ IsSpace(Head(s)) THEN LStrip(Tail(s)) ELSE s

RECURSIVE RStrip(_)
RStrip(s) ==
    IF s # <<>> /\ IsSpace(s[Len(s)]) THEN RStrip(SubSeq(s, 1, Len(s) - 1)) ELSE s

Strip(s) == RStrip(LStrip(s))

None == [none |-> TRUE]

\* __init__
ParserNew ==
    [sections |-> <<>>, current_section |-> None, current_content |-> <<>>,
     in_section |-> FALSE, section_level |-> 0]

\* The current section with its content joined, appended to the sections.
SaveSection(p) ==
    IF p.current_section # None
    THEN Append(p.sections,
                [p.current_section EXCEPT
                     !.content = Strip(Join(p.current_content, <<" ">>))])
    ELSE p.sections

handle_starttag(p, tag, attrs) ==
    IF tag \in HeadingTags
    THEN [sections |-> SaveSection(p),
          current_section |-> [id |-> AttrsGet(attrs, "id", ""),
                               level |-> TagRank(tag),
                               title |-> <<>>,
                               content |-> <<>>],
          current_content |-> <<>>,
          in_section |-> TRUE,
          section_level |-> TagRank(tag)]
    ELSE p

handle_endtag(p, tag) ==
    IF tag \in HeadingTags THEN [p EXCEPT !.in_section = FALSE] ELSE p

handle_data_all_content(p, data) ==
    IF p.current_section # None /\ Strip(data) # <<>>
    THEN [p EXCEPT !.current_content = Append(@, Strip(data))]
    ELSE p

handle_data(p, data) ==
    IF p.in_section /\ p.current_section # None
    THEN [p EXCEPT !.current_section.title = Strip(data)]
    ELSE IF p.current_section # None
    THEN IF Strip(data) # <<>>
         THEN [p EXCEPT !.current_content = Append(@, Strip(data))]
         ELSE p
    ELSE p

get_sections_drop_last(p) == p

\* get_sections: the parser after the call; the value returned is its sections
get_sections(p) ==
    [p EXCEPT !.sections = SaveSection(p)]

\* The events HTMLParser.feed calls the handlers with.
StartTagEvent(tag, attrs) == [kind |-> "start", tag |-> tag, attrs |-> attrs, data |-> <<>>]
EndTagEvent(tag) == [kind |-> "end", tag |-> tag, attrs |-> <<>>, data |-> <<>>]
DataEvent(data) == [kind |-> "data", tag |-> "", attrs |-> <<>>, data |-> data]

Tags == HeadingTags \cup {"b"}
AttrLists == {<<>>, <<<<"id", "intro">>>>}
Texts == {<<" ">>, <<"a">>, <<" ", "b", " ">>}

HandleEvent(p, e) ==
    CASE e.kind = "start" -> handle_starttag(p, e.tag, e.attrs)
      [] e.kind = "end"   -> handle_endtag(p, e.tag)
      [] e.kind = "data"  -> handle_data(p, e.data)

\* parser.feed(html_content) on a document given by its events
RECURSIVE Feed(_, _)
Feed(p, events) ==
    IF events = <<>> THEN p ELSE Feed(HandleEvent(p, Head(events)), Tail(events))

\* parser = DocumentationParser(); parser.feed(...); parser.get_sections()
ParseSections(events) == get_sections(Feed(ParserNew, events)).sections

ParserIdle ==
    /\ parser = ParserNew
    /\ fed = <<>>
    /\ ppc = "idle"
    /\ returned = <<>>

ParserInit ==
    /\ parser = ParserNew
    /\ fed = <<>>
    /\ ppc = "feed"
    /\ returned = <<>>

FeedStartTag ==
    /\ ppc = "feed"
    /\ Len(fed) < MaxEvents
    /\ \E tag \in Tags, attrs \in AttrLists :
           /\ parser' = handle_starttag(parser, tag, attrs)
           /\ fed' = Append(fed, StartTagEvent(tag, attrs))
    /\ UNCHANGED <<ppc, returned>>
    /\ UNCHANGED notParserVars

FeedEndTag ==
    /\ ppc = "feed"
    /\ Len(fed) < MaxEvents
    /\ \E tag \in Tags :
           /\ parser' = handle_endtag(parser, tag)
           /\ fed' = Append(fed, EndTagEvent(tag))
    /\ UNCHANGED <<ppc, returned>>
    /\ UNCHANGED notParserVars

FeedData ==
    /\ ppc = "feed"
    /\ Len(fed) < MaxEvents
    /\ \E data \in Texts :
           /\ parser' = handle_data(parser, data)
           /\ fed' = Append(fed, DataEvent(data))
    /\ UNCHANGED <<ppc, returned>>
    /\ UNCHANGED notParserVars

\* sections = parser.get_sections(), once, after the feed
GetSections ==
    /\ ppc = "feed"
    /\ parser' = get_sections(parser)
    /\ returned' = parser'.sections
    /\ ppc' = "done"
    /\ UNCHANGED fed
    /\ UNCHANGED notParserVars

ParserNext ==
    \/ FeedStartTag
    \/ FeedEndTag
    \/ FeedData
    \/ GetSections

\* -------------------------------------------------- fetch_rf_documentation
\* Most calls of fetch_rf_documentation in one run of the server.
MaxCalls == 2

\* The first libraries of STANDARD_LIBRARIES; the loop treats all alike.
Libraries == <<"BuiltIn", "Collections">>

UserGuide == "RobotFrameworkUserGuide"

LibrarySet == {Libraries[j] : j \in 1..Len(Libraries)}

\* A file of the cache directory: absent, bytes that are not UTF-8, or a
\* text.  The user guide's text is given by the events its markup produces.
NoFile == [exists |-> FALSE, decodable |-> FALSE, content |-> <<>>]
BinaryFile == [exists |-> TRUE, decodable |-> FALSE, content |-> <<>>]
TextFile(content) == [exists |-> TRUE, decodable |-> TRUE, content |-> content]

\* What the two URLs may serve.
GuideNoHeading == <<DataEvent(<<"a">>)>>
GuideOneSection ==
    <<StartTagEvent("h1", <<<<"id", "intro">>>>), DataEvent(<<"a">>), EndTagEvent("h1"),
      DataEvent(<<" ", "b", " ">>)>>
GuideTwoSections ==
    <<StartTagEvent("h2", <<>>), DataEvent(<<"a">>), EndTagEvent("h2"),
      StartTagEvent("h3", <<>>), EndTagEvent("h3"), DataEvent(<<"a">>)>>
GuideFiles ==
    {BinaryFile, TextFile(GuideNoHeading), TextFile(GuideOneSection), TextFile(GuideTwoSections)}

PageTwoKeywords ==
    Marker \o Encode(JObj(<< <<K_keywords, JArr(<<EntryA, EntryDoc>>)>> >>)) \o <<";">>
PageNoKeywords == Marker \o Encode(JObj(<<>>))
PageRepeatedName ==
    Marker \o Encode(JObj(<< <<K_keywords, JArr(<<EntryA, EntryAgain>>)>> >>))
LibraryTexts ==
    {PageOneKeyword, PageTwoKeywords, PageRepeatedName, PageNoKeywords, PageUnclosed}
LibraryFiles == {TextFile(t) : t \in LibraryTexts} \cup {BinaryFile}

\* _download_file: the request fails and the target is left as it was, or
\* the response's bytes replace the target.
DownloadFailed == [success |-> FALSE, file |-> NoFile]
DownloadOutcomes(served) == {DownloadFailed} \cup {[success |-> TRUE, file |-> f] : f \in served}
NoDownload == [success |-> FALSE, file |-> NoFile, skipped |-> TRUE]

ShouldDownloadAlways(force, file) == TRUE

\* force_refresh or not <file>.exists()
ShouldDownload(force, file) == force \/ ~file.exists

\* dict.get(key, default) on a result
RecGet(r, key, default) == IF key \in DOMAIN r THEN r[key] ELSE default

\* _parse_documentation with DOCS_FILE = file at time now: its return value
\* and what it writes to INDEX_FILE.
ParseDocumentation(file, now) ==
    IF ~file.exists
    THEN [result |-> [error |-> "Documentation not downloaded"], written |-> FALSE, index |-> NoFile]
    ELSE IF ~file.decodable
    THEN [result |-> [success |-> FALSE, error |-> "Parsing error"],
          written |-> FALSE, index |-> NoFile]
    ELSE LET sections == ParseSections(file.content)
         IN  [result |-> [success |-> TRUE, sections_parsed |-> Len(sections)],
              written |-> TRUE,
              index |-> TextFile([parsed_at |-> now,
                                  total_sections |-> Len(sections),
                                  sections |-> sections])]

\* _parse_library_keywords(library_name) on every text a library file may hold
ParsedTexts ==
    [name \in LibrarySet |-> [t \in LibraryTexts |-> ParseLibraryKeywords(name, t)]]

\* _parse_library_keywords(library_name) with the library's file = file
ParseLibraryFile(library_name, file) ==
    IF ~file.exists THEN [error |-> "documentation not downloaded"]
    ELSE IF ~file.decodable THEN ParsingErrorResult
    ELSE ParsedTexts[library_name][file.content]

AccumulateAll(acc, library_name, keywords_result) ==
    [all_keywords |-> DictPut(acc.all_keywords, library_name,
                              RecGet(keywords_result, "keywords", <<>>)),
     total_keywords |-> acc.total_keywords + RecGet(keywords_result, "total_keywords", 0)]

\* if keywords_result.get("success"): all_keywords[...] = ...; total_keywords += ...
Accumulate(acc, library_name, keywords_result) ==
    IF RecGet(keywords_result, "success", FALSE)
    THEN [all_keywords |-> DictPut(acc.all_keywords, library_name,
                                   RecGet(keywords_result, "keywords", <<>>)),
          total_keywords |-> acc.total_keywords + RecGet(keywords_result, "total_keywords", 0)]
    ELSE acc

OverallSuccessOfAll(r) ==
    /\ RecGet(r.user_guide, "success", FALSE)
    /\ \A j \in 1..Len(r.libraries) : r.libraries[j][2].success

\* results.get("user_guide", {}).get("success", False)
OverallSuccess(r) == RecGet(r.user_guide, "success", FALSE)

NewResults ==
    [files_downloaded |-> <<>>, libraries |-> <<>>, user_guide |-> None,
     indexing |-> None, keywords_index |-> None, success |-> None]

CachedNow ==
    (IF docs_file.exists THEN {UserGuide} ELSE {})
        \cup {name \in LibrarySet : library_files[name].exists}

\* The calls of _download_file and of the two parse functions that one call
\* of fetch_rf_documentation has made so far are kept in trace, in order.
DownloadOf(document) == [call |-> "_download_file", document |-> document]
ParseOf(document) == [call |-> "parse", document |-> document]

\* No call of fetch_rf_documentation made yet.
FetchQuiet ==
    /\ fpc = "idle"
    /\ calls = 0
    /\ force_refresh = FALSE
    /\ results = NewResults
    /\ lib_pos = 0
    /\ all_keywords = <<>>
    /\ total_keywords = 0
    /\ cached_at_call = {}
    /\ attempted = {}
    /\ parsed = {}
    /\ written = {}
    /\ trace = <<>>

FetchIdle ==
    /\ FetchQuiet
    /\ docs_file = NoFile
    /\ library_files = [name \in LibrarySet |-> NoFile]
    /\ index_file = NoFile
    /\ keywords_index_file = NoFile

\* The call and its results dictionary.
BeginFetch(force) ==
    /\ calls' = calls + 1
    /\ force_refresh' = force
    /\ results' = NewResults
    /\ cached_at_call' = CachedNow
    /\ attempted' = {}
    /\ parsed' = {}
    /\ written' = {}
    /\ trace' = <<>>
    /\ fpc' = "user_guide"
    /\ UNCHANGED <<lib_pos, all_keywords, total_keywords, docs_file, library_files,
                   index_file, keywords_index_file>>

FetchCall ==
    /\ fpc \in {"idle", "return"}
    /\ calls < MaxCalls
    /\ \E force \in BOOLEAN : BeginFetch(force)
    /\ UNCHANGED notFetchVars

\* Download User Guide
DownloadUserGuide ==
    /\ fpc = "user_guide"
    /\ \E out \in IF ShouldDownload(force_refresh, docs_file)
                  THEN DownloadOutcomes(GuideFiles) ELSE {NoDownload} :
           IF ShouldDownload(force_refresh, docs_file)
           THEN /\ docs_file' = IF out.success THEN out.file ELSE docs_file
                /\ results' = [results EXCEPT
                       !.user_guide = [success |-> out.success],
                       !.files_downloaded =
                           IF out.success THEN Append(@, UserGuide) ELSE @]
                /\ attempted' = attempted \cup {UserGuide}
                /\ trace' = Append(trace, DownloadOf(UserGuide))
           ELSE /\ results' = [results EXCEPT
                       !.user_guide = [success |-> TRUE, cached |-> TRUE]]
                /\ UNCHANGED <<docs_file, attempted, trace>>
    /\ fpc' = "indexing"
    /\ UNCHANGED <<calls, force_refresh, lib_pos, all_keywords, total_keywords,
                   library_files, index_file, keywords_index_file, cached_at_call,
                   parsed, written>>
    /\ UNCHANGED notFetchVars

\* Parse and index User Guide documentation; the loop's initial values.
IndexUserGuide ==
    /\ fpc = "indexing"
    /\ IF docs_file.exists
       THEN LET r == ParseDocumentation(docs_file, calls)
            IN  /\ results' = [results EXCEPT !.indexing = r.result]
                /\ index_file' = IF r.written THEN r.index ELSE index_file
                /\ written' = IF r.written THEN written \cup {"INDEX_FILE"} ELSE written
                /\ parsed' = parsed \cup {UserGuide}
                /\ trace' = Append(trace, ParseOf(UserGuide))
       ELSE UNCHANGED <<results, index_file, written, parsed, trace>>
    /\ all_keywords' = <<>>
    /\ total_keywords' = 0
    /\ lib_pos' = 1
    /\ fpc' = "libraries"
    /\ UNCHANGED <<calls, force_refresh, docs_file, library_files, keywords_index_file,
                   cached_at_call, attempted>>
    /\ UNCHANGED notFetchVars

\* One iteration of the loop over the libraries.
FetchLibrary ==
    /\ fpc = "libraries"
    /\ lib_pos <= Len(Libraries)
    /\ LET library_name == Libraries[lib_pos]
           library_file == library_files[library_name]
           download == ShouldDownload(force_refresh, library_file)
       IN  \E out \in IF download THEN DownloadOutcomes(LibraryFiles) ELSE {NoDownload} :
               LET file_now == IF download /\ out.success THEN out.file ELSE library_file
                   keywords_result == ParseLibraryFile(library_name, file_now)
                   acc == Accumulate([all_keywords |-> all_keywords,
                                      total_keywords |-> total_keywords],
                                     library_name, keywords_result)
               IN  /\ library_files' = [library_files EXCEPT ![library_name] = file_now]
                   /\ attempted' = IF download THEN attempted \cup {library_name} ELSE attempted
                   /\ trace' = trace
                          \o (IF download THEN <<DownloadOf(library_name)>> ELSE <<>>)
                          \o (IF file_now.exists THEN <<ParseOf(library_name)>> ELSE <<>>)
                   /\ IF file_now.exists
                      THEN /\ results' = [results EXCEPT
                                  !.files_downloaded =
                                      IF download /\ out.success
                                      THEN Append(@, library_name) ELSE @,
                                  !.libraries = DictPut(@, library_name,
                                      [success |-> RecGet(keywords_result, "success", FALSE),
                                       total_keywords |->
                                           RecGet(keywords_result, "total_keywords", 0)])]
                           /\ parsed' = parsed \cup {library_name}
                           /\ all_keywords' = acc.all_keywords
                           /\ total_keywords' = acc.total_keywords
                      ELSE UNCHANGED <<results, parsed, all_keywords, total_keywords>>
    /\ lib_pos' = lib_pos + 1
    /\ UNCHANGED <<fpc, calls, force_refresh, docs_file, index_file, keywords_index_file,
                   cached_at_call, written>>
    /\ UNCHANGED notFetchVars

\* Save combined keywords index, results["success"] and the return.
SaveKeywordsIndex ==
    /\ fpc = "libraries"
    /\ lib_pos > Len(Libraries)
    /\ IF all_keywords # <<>>
       THEN /\ keywords_index_file' =
                   TextFile([parsed_at |-> calls,
                             total_libraries |-> Len(all_keywords),
                             total_keywords |-> total_keywords,
                             libraries |-> all_keywords])
            /\ written' = written \cup {"KEYWORDS_INDEX"}
            /\ results' = [results EXCEPT
                   !.keywords_index = [success |-> TRUE,
                                       total_libraries |-> Len(all_keywords),
                                       total_keywords |-> total_keywords],
                   !.success = OverallSuccess(results)]
       ELSE /\ results' = [results EXCEPT
                   !.success = OverallSuccess(results)]
            /\ UNCHANGED <<keywords_index_file, written>>
    /\ fpc' = "return"
    /\ UNCHANGED <<calls, force_refresh, lib_pos, all_keywords, total_keywords, docs_file,
                   library_files, index_file, cached_at_call, attempted, parsed, trace>>
    /\ UNCHANGED notFetchVars

FetchNext ==
    \/ FetchCall
    \/ DownloadUserGuide
    \/ IndexUserGuide
    \/ FetchLibrary
    \/ SaveKeywordsIndex

\* --------------------------------------- _parse_library_keywords, step by step
\* The library whose page the call parses.
ParsedLibrary == "BuiltIn"
NoResult == [pending |-> TRUE]

LibIdle ==
    /\ html_content = <<>>
    /\ lpc = "idle"
    /\ start_pos = 0
    /\ i = 0
    /\ depth = 0
    /\ in_string = FALSE
    /\ escape = FALSE
    /\ libdoc_json = <<>>
    /\ libdoc_data = JNull
    /\ kw_list = <<>>
    /\ kw_pos = 0
    /\ keywords = <<>>
    /\ result = NoResult

LibInit(pages) ==
    /\ html_content \in pages
    /\ lpc = "search"
    /\ start_pos = 0
    /\ i = 0
    /\ depth = 0
    /\ in_string = FALSE
    /\ escape = FALSE
    /\ libdoc_json = <<>>
    /\ libdoc_data = JNull
    /\ kw_list = <<>>
    /\ kw_pos = 0
    /\ keywords = <<>>
    /\ result = NoResult

\* start_match = re.search(...), the return for no match, and the scan's
\* initial values.
SearchMarker ==
    /\ lpc = "search"
    /\ LET m == ReSearchLibdoc(html_content)
       IN  IF m = 0
           THEN /\ result' = NotFoundResult
                /\ lpc' = "return"
                /\ UNCHANGED <<start_pos, i>>
           ELSE /\ start_pos' = m
                /\ i' = m
                /\ lpc' = "scan"
                /\ UNCHANGED result
    /\ depth' = ScanInit.depth
    /\ in_string' = ScanInit.in_string
    /\ escape' = ScanInit.escape
    /\ UNCHANGED <<html_content, libdoc_json, libdoc_data, kw_list, kw_pos, keywords>>
    /\ UNCHANGED notLibVars

\* One iteration of the for loop, on the character at position i.
ScanStep ==
    /\ lpc = "scan"
    /\ i <= Len(html_content)
    /\ LET st == [depth |-> depth, in_string |-> in_string, escape |-> escape, done |-> FALSE]
           nx == ScanChar(st, html_content[i])
       IN  /\ depth' = nx.depth
           /\ in_string' = nx.in_string
           /\ escape' = nx.escape
           /\ IF nx.done
              THEN /\ libdoc_json' = SubSeq(html_content, start_pos, i)
                   /\ lpc' = "loads"
                   /\ i' = i
              ELSE /\ i' = i + 1
                   /\ UNCHANGED <<libdoc_json, lpc>>
    /\ UNCHANGED <<html_content, start_pos, libdoc_data, kw_list, kw_pos, keywords, result>>
    /\ UNCHANGED notLibVars

ScanExhaustedAsNotFound ==
    /\ lpc = "scan"
    /\ i > Len(html_content)
    /\ result' = NotFoundResult
    /\ lpc' = "return"
    /\ UNCHANGED <<html_content, start_pos, i, depth, in_string, escape,
                   libdoc_json, libdoc_data, kw_list, kw_pos, keywords>>
    /\ UNCHANGED notLibVars

\* The for loop's else branch: the text ended before depth returned to 0.
ScanExhausted ==
    /\ lpc = "scan"
    /\ i > Len(html_content)
    /\ result' = UnbalancedResult
    /\ lpc' = "return"
    /\ UNCHANGED <<html_content, start_pos, i, depth, in_string, escape,
                   libdoc_json, libdoc_data, kw_list, kw_pos, keywords>>
    /\ UNCHANGED notLibVars

\* libdoc_data = json.loads(libdoc_json) and the start of the loop over
\* libdoc_data.get("keywords", []).
LoadLibdoc ==
    /\ lpc = "loads"
    /\ LET r == JsonLoads(libdoc_json)
           it == Iterate(DictGet(r.v, K_keywords, JArr(<<>>)))
       IN  IF ~r.ok
           THEN /\ result' = JsonErrorResult
                /\ lpc' = "return"
                /\ UNCHANGED <<libdoc_data, kw_list, kw_pos>>
           ELSE /\ libdoc_data' = r.v
                /\ IF ~it.ok
                   THEN /\ result' = ParsingErrorResult
                        /\ lpc' = "return"
                        /\ UNCHANGED <<kw_list, kw_pos>>
                   ELSE /\ kw_list' = it.items
                        /\ kw_pos' = 1
                        /\ lpc' = "keywords"
                        /\ UNCHANGED result
    /\ UNCHANGED <<html_content, start_pos, i, depth, in_string, escape, libdoc_json, keywords>>
    /\ UNCHANGED notLibVars

\* One iteration of the loop over the keywords, on entry kw_pos.
KeywordStep ==
    /\ lpc = "keywords"
    /\ kw_pos <= Len(kw_list)
    /\ LET e == KeywordEntry(keywords, kw_list[kw_pos], ParsedLibrary)
       IN  IF e.raised
           THEN /\ result' = ParsingErrorResult
                /\ lpc' = "return"
                /\ UNCHANGED <<keywords, kw_pos>>
           ELSE /\ keywords' = e.keywords
                /\ kw_pos' = kw_pos + 1
                /\ UNCHANGED <<result, lpc>>
    /\ UNCHANGED <<html_content, start_pos, i, depth, in_string, escape,
                   libdoc_json, libdoc_data, kw_list>>
    /\ UNCHANGED notLibVars

\* The return after the loop.
ReturnKeywords ==
    /\ lpc = "keywords"
    /\ kw_pos > Len(kw_list)
    /\ result' = SuccessResult(ParsedLibrary, keywords)
    /\ lpc' = "return"
    /\ UNCHANGED <<html_content, start_pos, i, depth, in_string, escape,
                   libdoc_json, libdoc_data, kw_list, kw_pos, keywords>>
    /\ UNCHANGED notLibVars

LibNext ==
    \/ SearchMarker
    \/ ScanStep
    \/ ScanExhausted
    \/ LoadLibdoc
    \/ KeywordStep
    \/ ReturnKeywords

\* ------------------------------------------------- run_robocop_audit (server.py)
\* Most components of an enumerated target_path.
MaxParts == 3

\* RF_TESTS_DIR is not set: DEFAULT_TESTS = "/tests".
DEFAULT_TESTS == <<"/", "t", "e", "s", "t", "s">>

\* The directory the server runs in.
WorkingDirectory == <<"/", "a", "p", "p">>

\* str.startswith(prefix)
startswith(s, prefix) ==
    Len(prefix) <= Len(s) /\ SubSeq(s, 1, Len(prefix)) = prefix

\* str.lstrip(chars)
RECURSIVE lstrip(_, _)
lstrip(s, chars) ==
    IF s # <<>> /\ Head(s) \in chars THEN lstrip(Tail(s), chars) ELSE s

\* str.split("/")
RECURSIVE split(_)
split(s) ==
    IF \E k \in 1..Len(s) : s[k] = "/"
    THEN LET k == CHOOSE k \in 1..Len(s) : s[k] = "/" /\ \A l \in 1..(k - 1) : s[l] # "/"
         IN  <<SubSeq(s, 1, k - 1)>> \o split(SubSeq(s, k + 1, Len(s)))
    ELSE <<s>>

\* os.path.join(a, b)
join(a, b) ==
    IF startswith(b, <<"/">>) THEN b
    ELSE IF a = <<>> \/ a[Len(a)] = "/" THEN a \o b
    ELSE a \o <<"/">> \o b

\* The loop of os.path.normpath over the components from component p on.
RECURSIVE Collapse(_, _, _, _)
Collapse(comps, p, new_comps, initial_slashes) ==
    IF p > Len(comps) THEN new_comps
    ELSE LET comp == comps[p]
         IN  IF comp \in {<<>>, <<".">>}
             THEN Collapse(comps, p + 1, new_comps, initial_slashes)
             ELSE IF \/ comp # <<".", ".">>
                     \/ (initial_slashes = 0 /\ new_comps = <<>>)
                     \/ (new_comps # <<>> /\ new_comps[Len(new_comps)] = <<".", ".">>)
             THEN Collapse(comps, p + 1, Append(new_comps, comp), initial_slashes)
             ELSE IF new_comps # <<>>
             THEN Collapse(comps, p + 1, SubSeq(new_comps, 1, Len(new_comps) - 1),
                           initial_slashes)
             ELSE Collapse(comps, p + 1, new_comps, initial_slashes)

\* os.path.normpath(path)
normpath(path) ==
    IF path = <<>> THEN <<".">>
    ELSE LET initial_slashes ==
                 IF ~startswith(path, <<"/">>) THEN 0
                 ELSE IF startswith(path, <<"/", "/">>) /\ ~startswith(path, <<"/", "/", "/">>)
                 THEN 2
                 ELSE 1
             new_comps == Collapse(split(path), 1, <<>>, initial_slashes)
             joined == [j \in 1..initial_slashes |-> "/"] \o Join(new_comps, <<"/">>)
         IN  IF joined = <<>> THEN <<".">> ELSE joined

\* os.path.abspath(path)
abspath(path) ==
    IF startswith(path, <<"/">>) THEN normpath(path)
    ELSE normpath(join(WorkingDirectory, path))

\* safe_path of run_robocop_audit(target_path)
SafePath(target) ==
    IF startswith(target, DEFAULT_TESTS)
    THEN abspath(target)
    ELSE abspath(join(DEFAULT_TESTS, lstrip(target, {".", "/"})))

\* not safe_path.startswith(os.path.abspath(DEFAULT_TESTS))
PathRefused(safe) == ~startswith(safe, abspath(DEFAULT_TESTS))

InvalidPathResult(target) ==
    [returncode |-> 1, error |-> "Invalid path", target_path |-> target,
     hint |-> "Path must be within DEFAULT_TESTS"]

\* The paths given to the robocop subprocesses, one for each report written.
RobocopRuns(safe, format) ==
    (IF format \in {"text", "all"} THEN <<safe>> ELSE <<>>)
        \o (IF format \in {"json", "all"} THEN <<safe>> ELSE <<>>)

\* The target paths enumerated: up to MaxParts components, relative or
\* absolute.
PathParts ==
    {<<>>, <<".">>, <<".", ".">>, <<"a">>, <<"t", "e", "s", "t", "s">>,
     <<"t", "e", "s", "t", "s", "_", "o">>}
TargetPaths ==
    {Join(parts, <<"/">>) : parts \in SeqsUpTo(PathParts, MaxParts)}
        \cup {<<"/">> \o Join(parts, <<"/">>) : parts \in SeqsUpTo(PathParts, MaxParts)}
ReportFormats == {"text", "json", "all", "html"}

AuditIdle ==
    /\ apc = "idle"
    /\ target_path = <<>>
    /\ report_format = "text"
    /\ safe_path = <<>>
    /\ handed = <<>>
    /\ audit_result = None

\* The call, and safe_path.
ResolveTarget ==
    /\ apc = "idle"
    /\ \E target \in TargetPaths, format \in ReportFormats :
           /\ target_path' = target
           /\ report_format' = format
           /\ safe_path' = SafePath(target)
    /\ apc' = "verify"
    /\ UNCHANGED <<handed, audit_result>>
    /\ UNCHANGED notAuditVars

\* Verify path is within DEFAULT_TESTS: the return of the refusal.
RefusePath ==
    /\ apc = "verify"
    /\ PathRefused(safe_path)
    /\ audit_result' = InvalidPathResult(target_path)
    /\ apc' = "done"
    /\ UNCHANGED <<target_path, report_format, safe_path, handed>>
    /\ UNCHANGED notAuditVars

\* The robocop subprocesses on safe_path.
RunRobocop ==
    /\ apc = "verify"
    /\ ~PathRefused(safe_path)
    /\ handed' = RobocopRuns(safe_path, report_format)
    /\ \E returncode \in {0, 1} :
           audit_result' = [returncode |-> IF handed' = <<>> THEN 0 ELSE returncode]
    /\ apc' = "done"
    /\ UNCHANGED <<target_path, report_format, safe_path>>
    /\ UNCHANGED notAuditVars

AuditNext ==
    \/ ResolveTarget
    \/ RefusePath
    \/ RunRobocop

\* ------------------------------------------------- no refresh running beside
\* Most refreshes that run at the same time.
MaxRefreshers == 2

Refreshers == 1..MaxRefreshers

\* A refresh that was not called yet.
RefreshIdle == [pc |-> "idle", index |-> NoFile, lib_pos |-> 0, all_keywords |-> <<>>,
                total_keywords |-> 0]

ConcurrentIdle ==
    /\ refresh = [p \in Refreshers |-> RefreshIdle]
    /\ observed = None

\* ------------------------------------------------------------ the tool calls
\* The tool called last with its arguments, and what it returned.
ToolsIdle ==
    /\ tpc = "idle"
    /\ tool_call = None
    /\ tool_result = None

\* ------------------------------------------------- search_rf_documentation
\* Most sections of an enumerated section index.
MaxSections == 3

UpperCase ==
    <<"A", "B", "C", "D", "E", "F", "G", "H", "I", "J", "K", "L", "M",
      "N", "O", "P", "Q", "R", "S", "T", "U", "V", "W", "X", "Y", "Z">>
LowerCase ==
    <<"a", "b", "c", "d", "e", "f", "g", "h", "i", "j", "k", "l", "m",
      "n", "o", "p", "q", "r", "s", "t", "u", "v", "w", "x", "y", "z">>

\* str.lower()
lower(s) ==
    [j \in 1..Len(s) |->
        IF \E k \in 1..26 : UpperCase[k] = s[j]
        THEN LowerCase[CHOOSE k \in 1..26 : UpperCase[k] = s[j]]
        ELSE s[j]]

RECURSIVE CountOverlapping(_, _, _)
CountOverlapping(s, sub, p) ==
    IF p + Len(sub) - 1 > Len(s) THEN 0
    ELSE (IF SubSeq(s, p, p + Len(sub) - 1) = sub THEN 1 ELSE 0)
             + CountOverlapping(s, sub, p + 1)

CountNonEmpty(s, sub, p) ==
    IF sub = <<>> THEN 0 ELSE CountOverlapping(s, sub, p)

\* str.count(sub) from position p on: the occurrences found from left to
\* right, each search starting behind the occurrence before it; the empty
\* string is found once before every character and once at the end.
RECURSIVE count(_, _, _)
count(s, sub, p) ==
    IF p + Len(sub) - 1 > Len(s) THEN 0
    ELSE IF SubSeq(s, p, p + Len(sub) - 1) = sub
    THEN 1 + count(s, sub, IF sub = <<>> THEN p + 1 ELSE p + Len(sub))
    ELSE count(s, sub, p + 1)

\* seq[:n]
Slice(s, n) ==
    IF n >= 0 THEN SubSeq(s, 1, IF n < Len(s) THEN n ELSE Len(s))
    ELSE SubSeq(s, 1, Len(s) + n)

PreviewLength == 300
Ellipsis == <<".", ".", ".">>

\* The entry appended to results for a section that matches.
SearchEntry(section, relevance) ==
    [title |-> section.title,
     id |-> section.id,
     level |-> section.level,
     relevance |-> relevance,
     content_preview |-> Slice(section.content, PreviewLength) \o Ellipsis]

\* The loop over the sections from section p on.
RECURSIVE SearchMatches(_, _, _)
SearchMatches(sections, query_lower, p) ==
    IF p > Len(sections) THEN <<>>
    ELSE LET section == sections[p]
             title_matches == count(lower(section.title), query_lower, 1)
             content_matches == count(lower(section.content), query_lower, 1)
             rest == SearchMatches(sections, query_lower, p + 1)
         IN  IF title_matches > 0 \/ content_matches > 0
             THEN <<SearchEntry(section, (title_matches * 10) + content_matches)>> \o rest
             ELSE rest

RECURSIVE SortTiesReversed(_)
SortTiesReversed(rs) ==
    IF rs = <<>> THEN <<>>
    ELSE LET sorted == SortTiesReversed(SubSeq(rs, 1, Len(rs) - 1))
             x == rs[Len(rs)]
             before == SelectSeq(sorted, LAMBDA r : r.relevance > x.relevance)
             after == SelectSeq(sorted, LAMBDA r : r.relevance <= x.relevance)
         IN  before \o <<x>> \o after

\* results.sort(key=lambda x: x["relevance"], reverse=True): each entry, in
\* list order, goes behind the entries placed so far whose relevance is not
\* smaller than its own.
RECURSIVE SortByRelevance(_)
SortByRelevance(rs) ==
    IF rs = <<>> THEN <<>>
    ELSE LET sorted == SortByRelevance(SubSeq(rs, 1, Len(rs) - 1))
             x == rs[Len(rs)]
             before == SelectSeq(sorted, LAMBDA r : r.relevance >= x.relevance)
             after == SelectSeq(sorted, LAMBDA r : r.relevance < x.relevance)
         IN  before \o <<x>> \o after

\* search_rf_documentation(query, max_results) with INDEX_FILE = file
search_rf_documentation(file, query, max_results) ==
    IF ~file.exists
    THEN [error |-> "Documentation index not found. Call fetch_rf_documentation first.",
          hint |-> "Run fetch_rf_documentation() to download and index docs"]
    ELSE LET matches == SortByRelevance(SearchMatches(file.content.sections, lower(query), 1))
         IN  [query |-> query,
              total_matches |-> Len(matches),
              results |-> Slice(matches, max_results)]

\* The sections of the enumerated indexes.
SectionRecord(id, level, title, content) ==
    [id |-> id, level |-> level, title |-> title, content |-> content]
SectionRunKeyword ==
    SectionRecord("run-keyword", 2, <<"R", "u", "n", " ", "K", "e", "y", "w", "o", "r", "d">>,
                  <<"r", "u", "n", " ", "a", " ", "k", "e", "y", "w", "o", "r", "d">>)
SectionRunRun ==
    SectionRecord("", 1, <<"x">>,
                  <<"r", "u", "n", " ", "r", "u", "n">>)
SectionAaa ==
    SectionRecord("aaa", 3, <<"A", "a", "a">>,
                  <<"a", "a", "a">>)
SectionARun ==
    SectionRecord("", 4, <<"x">>,
                  <<"a", " ", "r", "u", "n">>)
SectionUpperRun ==
    SectionRecord("up", 2, <<"y">>,
                  <<"R", "U", "N">>)
SectionEmpty == SectionRecord("", 1, <<>>, <<>>)
IndexedSections ==
    {SectionRunKeyword, SectionRunRun, SectionAaa, SectionARun, SectionUpperRun, SectionEmpty}

\* A section index as _parse_documentation writes it.
SectionIndex(sections) ==
    TextFile([parsed_at |-> 1, total_sections |-> Len(sections), sections |-> sections])
SectionIndexFiles ==
    {NoFile} \cup {SectionIndex(ss) : ss \in SeqsUpTo(IndexedSections, MaxSections)}

Queries ==
    {<<"r", "u", "n">>, <<"R", "U", "N">>, <<"a", "a">>, <<"a">>, <<"z">>, <<>>}
Caps == {-1, 0, 1, 2, 10}

SearchCall ==
    /\ tpc = "idle"
    /\ \E query \in Queries, max_results \in Caps :
           /\ tool_call' = [tool |-> "search_rf_documentation", query |-> query,
                            max_results |-> max_results]
           /\ tool_result' = search_rf_documentation(index_file, query, max_results)
    /\ tpc' = "done"
    /\ UNCHANGED <<libVars, parserVars, fetchVars, auditVars, concurrentVars>>

SearchInitial ==
    /\ LibIdle /\ ParserIdle /\ ToolsIdle /\ AuditIdle /\ ConcurrentIdle
    /\ FetchQuiet
    /\ docs_file = NoFile
    /\ library_files = [name \in LibrarySet |-> NoFile]
    /\ keywords_index_file = NoFile
    /\ index_file \in SectionIndexFiles

\* Calls of search_rf_documentation on a section index.
SpecSearch == SearchInitial /\ [][SearchCall]_vars

\* ----------------------------------------------- get_keyword_documentation
\* Most keywords of a library of an enumerated keyword index.
MaxStored == 2

NormalizeLowerOnly(name) == lower(name)

\* name.lower().replace("_", " ").replace("-", " ")
NormalizeName(name) == Replace(Replace(lower(name), "_", <<" ">>), "-", <<" ">>)

LibrariesToSearchAll(all_libraries, library_name) ==
    [found |-> TRUE, libraries |-> all_libraries]

\* Filter libraries if specified: whether the library named is in the index,
\* and the libraries to search.  No name (None) and the empty name are both
\* false at line 615 and are the value "" here.
LibrariesToSearch(all_libraries, library_name) ==
    IF library_name # ""
    THEN IF \A j \in 1..Len(all_libraries) : all_libraries[j][1] # library_name
         THEN [found |-> FALSE, libraries |-> <<>>]
         ELSE [found |-> TRUE,
               libraries |-> SelectSeq(all_libraries, LAMBDA l : l[1] = library_name)]
    ELSE [found |-> TRUE, libraries |-> all_libraries]

\* The (library, name, record) triples in the order the two loops visit them.
RECURSIVE Candidates(_)
Candidates(libraries) ==
    IF libraries = <<>> THEN <<>>
    ELSE [j \in 1..Len(Head(libraries)[2]) |->
             [library |-> Head(libraries)[1],
              k |-> Head(libraries)[2][j][1],
              v |-> Head(libraries)[2][j][2]]]
         \o Candidates(Tail(libraries))

LastMatch(candidates, keyword_name_lower) ==
    LET hits == SelectSeq(candidates, LAMBDA c : NormalizeName(c.k) = keyword_name_lower)
    IN  IF hits = <<>> THEN None ELSE hits[Len(hits)]

\* The candidate at which the loops return, None when they run to the end.
FirstMatch(candidates, keyword_name_lower) ==
    LET hits == SelectSeq(candidates, LAMBDA c : NormalizeName(c.k) = keyword_name_lower)
    IN  IF hits = <<>> THEN None ELSE hits[1]

FetchFailedResult == [error |-> "Failed to fetch documentation"]
LookupFailedResult == [error |-> "Failed to search keyword"]

\* get_keyword_documentation(keyword_name, library_name) from line 610 on,
\* with KEYWORDS_INDEX = file
get_keyword_documentation(file, keyword_name, library_name) ==
    IF ~file.exists THEN LookupFailedResult
    ELSE LET scope == LibrariesToSearch(file.content.libraries, library_name)
             match == FirstMatch(Candidates(scope.libraries), NormalizeName(keyword_name))
         IN  IF ~scope.found
             THEN [error |-> "Library not found",
                   available_libraries |->
                       [j \in 1..Len(file.content.libraries) |-> file.content.libraries[j][1]]]
             ELSE IF match # None
             THEN [keyword |-> match.k,
                   library |-> match.library,
                   available |-> TRUE,
                   arguments |-> match.v.args,
                   documentation |-> match.v.doc]
             ELSE [keyword |-> keyword_name,
                   available |-> FALSE,
                   message |-> "Keyword not found in any standard library",
                   hint |-> "Use get_all_keywords() to see all available keywords"]

\* check_keyword_availability(keyword_name), given what
\* get_keyword_documentation(keyword_name) returned
check_keyword_availability(keyword_name, r) ==
    [keyword_searched |-> keyword_name,
     available |-> RecGet(r, "available", FALSE),
     library |-> IF RecGet(r, "available", FALSE) THEN RecGet(r, "library", None) ELSE None,
     keyword_actual_name |->
         IF RecGet(r, "available", FALSE) THEN RecGet(r, "keyword", None) ELSE None,
     message |-> RecGet(r, "message",
                        [text |-> "Keyword is available in library",
                         keyword |-> RecGet(r, "keyword", None),
                         library |-> RecGet(r, "library", None)])]

\* What the tool called returns, given the result of the lookup.
LookupToolResult(call, r) ==
    IF call.tool = "check_keyword_availability"
    THEN check_keyword_availability(call.keyword_name, r)
    ELSE r

\* The keyword indexes enumerated: the libraries in the order of the loop
\* that wrote them, each with up to MaxStored keywords of different names.
StoredKeyword(name, library_name) ==
    [name |-> name, id |-> Replace(name, " ", <<"%", "2", "0">>), args |-> <<>>,
     doc |-> name, library |-> library_name]
StoredNames ==
    {<<"G", "e", "t", " ", "L", "e", "n", "g", "t", "h">>,
     <<"g", "e", "t", "_", "l", "e", "n", "g", "t", "h">>,
     <<"L", "o", "g">>,
     <<"G", "e", "t", " ", "L", "e", "n", "g", "t", "h", "s">>}
KeywordLists ==
    {ns \in SeqsUpTo(StoredNames, MaxStored) :
         \A j, k \in 1..Len(ns) : ns[j] = ns[k] => j = k}
StoredLibrary(library_name, names) ==
    <<library_name, [j \in 1..Len(names) |-> <<names[j], StoredKeyword(names[j], library_name)>>]>>
RECURSIVE KeywordTotal(_)
KeywordTotal(libraries) ==
    IF libraries = <<>> THEN 0 ELSE Len(Head(libraries)[2]) + KeywordTotal(Tail(libraries))
KeywordIndex(libraries) ==
    TextFile([parsed_at |-> 1, total_libraries |-> Len(libraries),
              total_keywords |-> KeywordTotal(libraries), libraries |-> libraries])
KeywordIndexFiles ==
    {KeywordIndex(<<StoredLibrary(Libraries[1], ns)>>) : ns \in KeywordLists}
    \cup {KeywordIndex(<<StoredLibrary(Libraries[2], ns)>>) : ns \in KeywordLists}
    \cup {KeywordIndex(<<StoredLibrary(Libraries[1], ns1), StoredLibrary(Libraries[2], ns2)>>) :
              ns1 \in KeywordLists, ns2 \in KeywordLists}

LookupNames ==
    {<<"g", "e", "t", "_", "l", "e", "n", "g", "t", "h">>,
     <<"G", "e", "t", "-", "L", "e", "n", "g", "t", "h">>,
     <<"g", "e", "t", " ", "l", "e", "n", "g", "t", "h">>,
     <<"g", "e", "t">>,
     <<"l", "o", "g">>}
LookupLibraries == {""} \cup LibrarySet \cup {"String"}
LookupTools == {"get_keyword_documentation", "check_keyword_availability"}

\* The call; with KEYWORDS_INDEX absent, the call of fetch_rf_documentation().
GetKeywordDocumentation ==
    /\ tpc = "idle"
    /\ \E tool \in LookupTools, keyword_name \in LookupNames, library_name \in LookupLibraries :
           /\ tool = "check_keyword_availability" => library_name = ""
           /\ tool_call' = [tool |-> tool, keyword_name |-> keyword_name,
                            library_name |-> library_name]
           /\ IF keywords_index_file.exists
              THEN /\ tool_result' = LookupToolResult(tool_call',
                           get_keyword_documentation(keywords_index_file, keyword_name,
                                                     library_name))
                   /\ tpc' = "done"
                   /\ UNCHANGED fetchVars
              ELSE /\ calls < MaxCalls
                   /\ BeginFetch(FALSE)
                   /\ tpc' = "fetch"
                   /\ UNCHANGED tool_result
    /\ UNCHANGED <<libVars, parserVars, auditVars, concurrentVars>>

\* After fetch_rf_documentation() returned: the error return at line 608, or
\* the lookup on the index as it is now.
ReturnKeywordDocumentation ==
    /\ tpc = "fetch"
    /\ fpc = "return"
    /\ tool_result' = LookupToolResult(tool_call,
           IF ~RecGet(results, "success", FALSE) THEN FetchFailedResult
           ELSE get_keyword_documentation(keywords_index_file, tool_call.keyword_name,
                                          tool_call.library_name))
    /\ tpc' = "done"
    /\ UNCHANGED tool_call
    /\ UNCHANGED <<libVars, parserVars, fetchVars, auditVars, concurrentVars>>

LookupNext ==
    \/ GetKeywordDocumentation
    \/ DownloadUserGuide
    \/ IndexUserGuide
    \/ FetchLibrary
    \/ SaveKeywordsIndex
    \/ ReturnKeywordDocumentation
    \/ SearchCall

LookupInitial ==
    /\ LibIdle /\ ParserIdle /\ ToolsIdle /\ AuditIdle /\ ConcurrentIdle
    /\ FetchQuiet
    /\ docs_file = NoFile
    /\ library_files = [name \in LibrarySet |-> NoFile]
    /\ index_file \in {NoFile, SectionIndex(<<SectionRunKeyword, SectionRunRun>>)}
    /\ keywords_index_file \in {NoFile} \cup KeywordIndexFiles

\* One call of get_keyword_documentation, check_keyword_availability or
\* search_rf_documentation on a cache directory that holds a keyword index
\* or none.
SpecLookup == LookupInitial /\ [][LookupNext]_vars

\* One call of _parse_library_keywords on a page of the scan, and one on a
\* libdoc page.
\* ------------------------------------ refreshes and readers running together
\* Refreshes that share the cache directory, each in a server of its own,
\* next to calls of search_rf_documentation and get_keyword_documentation.
\* The documents are in the cache and force_refresh is false, so that each
\* refresh takes the branch of lines 329-334 and skips the downloads at 350:
\* it parses the cached documents and writes the two indexes.  Each
\* write_text is the two steps of Path.write_text: open(mode='w'), which
\* empties the file, and write.
\* A file that is open for writing: it holds a prefix of the text being
\* written, at first the empty one.
PartialFile == [exists |-> TRUE, decodable |-> FALSE, content |-> <<>>, partial |-> TRUE]

\* A file that two writers wrote to from its start, the shorter text over
\* the beginning of the longer.
MixedFile == [exists |-> TRUE, decodable |-> FALSE, content |-> <<>>, mixed |-> TRUE]

\* The file after write(text) by a writer that opened it before: the text,
\* unless another writer has written since; then the text, followed by the
\* rest of the other text when that one is longer.
WriteOver(file, text) ==
    IF "partial" \in DOMAIN file THEN {TextFile(text)} ELSE {TextFile(text), MixedFile}

\* The call of refresh p, the cached user guide (lines 329-334), and the
\* try block of _parse_documentation up to the index to write; the time of
\* refresh p is written p.
ParseCachedGuide(p) ==
    /\ refresh[p].pc = "idle"
    /\ ~ShouldDownload(FALSE, docs_file)
    /\ LET r == ParseDocumentation(docs_file, p)
       IN  refresh' = [refresh EXCEPT
               ![p].index = r.index,
               ![p].pc = IF r.written THEN "open_index" ELSE "libraries",
               ![p].lib_pos = 1]
    /\ UNCHANGED <<observed, fetchVars>>
    /\ UNCHANGED <<libVars, parserVars, toolVars, auditVars>>

\* INDEX_FILE.write_text: the file is opened and emptied.
OpenIndexFile(p) ==
    /\ refresh[p].pc = "open_index"
    /\ index_file' = PartialFile
    /\ refresh' = [refresh EXCEPT ![p].pc = "write_index"]
    /\ UNCHANGED <<fpc, calls, force_refresh, results, lib_pos, all_keywords, total_keywords,
                   docs_file, library_files, keywords_index_file,
                   cached_at_call, attempted, parsed, written, trace, observed>>
    /\ UNCHANGED <<libVars, parserVars, toolVars, auditVars>>

\* INDEX_FILE.write_text: the index is written and the file closed.
WriteIndexFile(p) ==
    /\ refresh[p].pc = "write_index"
    /\ index_file' \in WriteOver(index_file, refresh[p].index.content)
    /\ refresh' = [refresh EXCEPT ![p].pc = "libraries"]
    /\ UNCHANGED <<fpc, calls, force_refresh, results, lib_pos, all_keywords, total_keywords,
                   docs_file, library_files, keywords_index_file,
                   cached_at_call, attempted, parsed, written, trace, observed>>
    /\ UNCHANGED <<libVars, parserVars, toolVars, auditVars>>

\* One iteration of the loop over the libraries, the library's file cached.
ParseCachedLibrary(p) ==
    /\ refresh[p].pc = "libraries"
    /\ refresh[p].lib_pos <= Len(Libraries)
    /\ LET library_name == Libraries[refresh[p].lib_pos]
           library_file == library_files[library_name]
           acc == Accumulate([all_keywords |-> refresh[p].all_keywords,
                              total_keywords |-> refresh[p].total_keywords],
                             library_name, ParseLibraryFile(library_name, library_file))
       IN  /\ ~ShouldDownload(FALSE, library_file)
           /\ refresh' = [refresh EXCEPT
                  ![p].all_keywords = acc.all_keywords,
                  ![p].total_keywords = acc.total_keywords,
                  ![p].lib_pos = @ + 1]
    /\ UNCHANGED <<observed, fetchVars>>
    /\ UNCHANGED <<libVars, parserVars, toolVars, auditVars>>

\* if all_keywords: KEYWORDS_INDEX.write_text: the file is opened and
\* emptied; or the return without a keyword index.
OpenKeywordsIndex(p) ==
    /\ refresh[p].pc = "libraries"
    /\ refresh[p].lib_pos > Len(Libraries)
    /\ IF refresh[p].all_keywords # <<>>
       THEN /\ keywords_index_file' = PartialFile
            /\ refresh' = [refresh EXCEPT ![p].pc = "write_keywords"]
       ELSE /\ refresh' = [refresh EXCEPT ![p].pc = "return"]
            /\ UNCHANGED keywords_index_file
    /\ UNCHANGED <<fpc, calls, force_refresh, results, lib_pos, all_keywords, total_keywords,
                   docs_file, library_files, index_file,
                   cached_at_call, attempted, parsed, written, trace, observed>>
    /\ UNCHANGED <<libVars, parserVars, toolVars, auditVars>>

\* KEYWORDS_INDEX.write_text: the index is written and the file closed; the
\* return.
WriteKeywordsIndex(p) ==
    /\ refresh[p].pc = "write_keywords"
    /\ keywords_index_file' \in
           WriteOver(keywords_index_file,
                     [parsed_at |-> p,
                      total_libraries |-> Len(refresh[p].all_keywords),
                      total_keywords |-> refresh[p].total_keywords,
                      libraries |-> refresh[p].all_keywords])
    /\ refresh' = [refresh EXCEPT ![p].pc = "return"]
    /\ UNCHANGED <<fpc, calls, force_refresh, results, lib_pos, all_keywords, total_keywords,
                   docs_file, library_files, index_file,
                   cached_at_call, attempted, parsed, written, trace, observed>>
    /\ UNCHANGED <<libVars, parserVars, toolVars, auditVars>>

\* search_rf_documentation reads INDEX_FILE (lines 402-410).
ReadIndexFile ==
    /\ observed' = [file |-> "INDEX_FILE", read |-> index_file]
    /\ UNCHANGED <<refresh, fetchVars>>
    /\ UNCHANGED <<libVars, parserVars, toolVars, auditVars>>

\* get_keyword_documentation reads KEYWORDS_INDEX, which exists (605-611).
ReadKeywordsIndex ==
    /\ keywords_index_file.exists
    /\ observed' = [file |-> "KEYWORDS_INDEX", read |-> keywords_index_file]
    /\ UNCHANGED <<refresh, fetchVars>>
    /\ UNCHANGED <<libVars, parserVars, toolVars, auditVars>>

ConcurrentNext ==
    \/ \E p \in Refreshers : ParseCachedGuide(p)
    \/ \E p \in Refreshers : OpenIndexFile(p)
    \/ \E p \in Refreshers : WriteIndexFile(p)
    \/ \E p \in Refreshers : ParseCachedLibrary(p)
    \/ \E p \in Refreshers : OpenKeywordsIndex(p)
    \/ \E p \in Refreshers : WriteKeywordsIndex(p)
    \/ ReadIndexFile
    \/ ReadKeywordsIndex

\* The cache directory after an earlier refresh, at time 0.
ConcurrentInitial ==
    /\ LibIdle /\ ParserIdle /\ ToolsIdle /\ AuditIdle
    /\ FetchQuiet
    /\ ConcurrentIdle
    /\ docs_file \in {TextFile(GuideOneSection), TextFile(GuideTwoSections)}
    /\ library_files \in [LibrarySet -> {TextFile(PageOneKeyword), TextFile(PageUnclosed)}]
    /\ index_file \in {NoFile, ParseDocumentation(docs_file, 0).index}
    /\ keywords_index_file \in
           {NoFile,
            TextFile([parsed_at |-> 0, total_libraries |-> 1, total_keywords |-> 0,
                      libraries |-> <<<<Libraries[1], <<>>>>>>])}

SpecConcurrent == ConcurrentInitial /\ [][ConcurrentNext]_vars

AuditInitial == LibIdle /\ ParserIdle /\ FetchIdle /\ ToolsIdle /\ AuditIdle /\ ConcurrentIdle
SpecAudit == AuditInitial /\ [][AuditNext]_vars

ScanInitial == LibInit(ScanPages) /\ ParserIdle /\ FetchIdle /\ ToolsIdle /\ AuditIdle /\ ConcurrentIdle
LibraryInitial == LibInit(LibdocPages) /\ ParserIdle /\ FetchIdle /\ ToolsIdle /\ AuditIdle /\ ConcurrentIdle
SpecScan == ScanInitial /\ [][LibNext]_vars
SpecLibrary == LibraryInitial /\ [][LibNext]_vars

\* One DocumentationParser fed any document of up to MaxEvents events.
ParserInitial == LibIdle /\ ParserInit /\ FetchIdle /\ ToolsIdle /\ AuditIdle /\ ConcurrentIdle
SpecParser == ParserInitial /\ [][ParserNext]_vars

\* Calls of fetch_rf_documentation, one after the other, on a cache
\* directory that starts empty.
FetchInitial == LibIdle /\ ParserIdle /\ FetchIdle /\ ToolsIdle /\ AuditIdle /\ ConcurrentIdle
SpecFetch == FetchInitial /\ [][FetchNext]_vars

\* The steps compute what the function computes as a whole.
StepsAgree ==
    lpc = "return" => result = ParseLibraryKeywords(ParsedLibrary, html_content)

\* ---------------------------------------------------- claims on the extractor
\* The grammar of a balanced object: "{", items, "}", an item being a string
\* literal, a nested object or a character that is no brace, quote or
\* backslash; a string literal runs from a quote to the next quote that no
\* backslash precedes, a backslash taking the character after it with it.
\* StringEnd and ObjectItemsEnd give the position of the closing quote or
\* brace, or 0 when the text is not of that form.
RECURSIVE StringEnd(_, _)
StringEnd(s, p) ==
    IF p > Len(s) THEN 0
    ELSE IF s[p] = "\"" THEN p
    ELSE IF s[p] = "\\" THEN (IF p + 1 > Len(s) THEN 0 ELSE StringEnd(s, p + 2))
    ELSE StringEnd(s, p + 1)

RECURSIVE ObjectItemsEnd(_, _)
ObjectItemsEnd(s, p) ==
    IF p > Len(s) THEN 0
    ELSE IF s[p] = "}" THEN p
    ELSE IF s[p] = "{"
    THEN LET e == ObjectItemsEnd(s, p + 1)
         IN  IF e = 0 THEN 0 ELSE ObjectItemsEnd(s, e + 1)
    ELSE IF s[p] = "\""
    THEN LET e == StringEnd(s, p + 1)
         IN  IF e = 0 THEN 0 ELSE ObjectItemsEnd(s, e + 1)
    ELSE IF s[p] = "\\" THEN 0
    ELSE ObjectItemsEnd(s, p + 1)

\* The closing brace of the balanced object that opens at p, or 0.
ObjectEnd(s, p) == IF p = 0 THEN 0 ELSE ObjectItemsEnd(s, p + 1)

\* Some string literal of the object that opens at p holds a brace.
BraceInString(s, p) ==
    \E q \in p..ObjectEnd(s, p) :
        /\ s[q] \in {"{", "}"}
        /\ \E a \in p..(q - 1) :
               /\ s[a] = "\""
               /\ StringEnd(s, a + 1) > q
               /\ ObjectItemsEnd(s, a) = ObjectEnd(s, p)

\* C1: whenever the marker is followed by a balanced object (whose string
\* literals may hold braces), the scan extracts exactly the text from the
\* marker's opening brace to the brace that closes the object.
C1_StringAwareExtraction ==
    lpc \notin {"search", "scan"} =>
        LET m == ReSearchLibdoc(html_content)
        IN  ObjectEnd(html_content, m) # 0 =>
                libdoc_json = SubSeq(html_content, m, ObjectEnd(html_content, m))

\* C1 witness: the object {"a":"}{","b":1} was extracted whole.
C1_Witness ==
    /\ lpc = "return"
    /\ html_content = PageBraceInString
    /\ BraceInString(html_content, start_pos)
    /\ libdoc_json = SubSeq(PageBraceInString, 10, Len(PageBraceInString))
    /\ result = SuccessResult(ParsedLibrary, <<>>)

\* C2: the character after a backslash is consumed without interpretation:
\* the iteration that finds escape set changes neither in_string nor depth
\* and does not end the scan; and the object {"a":"\"}"} is extracted whole.
C2_EscapeConsumesNext ==
    [][/\ (lpc = "scan" /\ escape /\ i <= Len(html_content)) =>
              /\ in_string' = in_string /\ depth' = depth /\ ~escape'
              /\ lpc' = "scan" /\ i' = i + 1
       /\ (lpc' = "return" /\ html_content = PageEscapedQuote) =>
              libdoc_json' = SubSeq(PageEscapedQuote, 8, Len(PageEscapedQuote))]_vars

\* C2 witness: the scan is inside a string, past a backslash and the quote
\* after it.
C2_Witness ==
    /\ lpc = "scan"
    /\ i > start_pos + 2
    /\ html_content[i - 2] = "\\"
    /\ html_content[i - 1] = "\""
    /\ in_string
    /\ ~escape
    /\ html_content = PageEscapedQuote

\* C3: no marker gives the not-found failure, a marker with no end of the
\* object the unbalanced failure, an extracted text that is not JSON the
\* JSON failure; the three differ, and none carries a keyword mapping.
C3_ExtractorFailures ==
    /\ NotFoundResult # UnbalancedResult
    /\ NotFoundResult # JsonErrorResult
    /\ UnbalancedResult # JsonErrorResult
    /\ lpc = "return" =>
           LET m == ReSearchLibdoc(html_content)
               e == IF m = 0 THEN 0 ELSE ScanFrom(html_content, m, ScanInit)
               bad == e # 0 /\ ~JsonLoads(SubSeq(html_content, m, e)).ok
           IN  /\ m = 0 => result = NotFoundResult
               /\ (m # 0 /\ e = 0) => result = UnbalancedResult
               /\ bad => result = JsonErrorResult
               /\ (m = 0 \/ e = 0 \/ bad) =>
                      /\ result.success = FALSE
                      /\ "error" \in DOMAIN result
                      /\ "keywords" \notin DOMAIN result

\* C3 witness: a balanced text that is not JSON was extracted and refused.
C3_Witness ==
    /\ lpc = "return"
    /\ libdoc_json # <<>>
    /\ ~JsonLoads(libdoc_json).ok
    /\ result = JsonErrorResult

\* --------------------------------------------------- claims on the normalizer
\* An entry of the shape the normalizer expects: a mapping whose name is a
\* string or absent, whose args are mappings with string reprs, and whose
\* shortdoc is a string.
WellShaped(kw_data) ==
    /\ kw_data.t = "obj"
    /\ DictGet(kw_data, K_name, JStr(<<>>)).t \in {"str", "null"}
    /\ ArgsParts(kw_data).ok
    /\ DictGet(kw_data, K_shortdoc, JStr(<<>>)).t = "str"

\* The names that the entries of a list give to records.
RecordNames(items) ==
    {DictGet(items[j], K_name, JStr(<<>>)).s :
        j \in {k \in 1..Len(items) :
                  WellShaped(items[k]) /\ Truthy(DictGet(items[k], K_name, JStr(<<>>)))}}

\* C6: when the "keywords" list holds an entry of unexpected shape, the
\* entry is skipped and the call succeeds with the records of all the
\* well-shaped entries.
C6_BadEntriesSkipped ==
    (lpc = "return" /\ libdoc_data.t = "obj"
        /\ DictGet(libdoc_data, K_keywords, JArr(<<>>)).t = "arr") =>
        /\ result.success
        /\ {result.keywords[j][1] : j \in 1..Len(result.keywords)}
               = RecordNames(DictGet(libdoc_data, K_keywords, JArr(<<>>)).a)

\* C7: every record has a non-empty name, which is its key in the mapping,
\* and the entries without a name give no record: a successful call returns
\* one record for each distinct non-empty name of the list.
C7_RecordsAreNamed ==
    /\ \A j \in 1..Len(keywords) :
           /\ keywords[j][1] # <<>>
           /\ keywords[j][2].name = keywords[j][1]
    /\ \A j, k \in 1..Len(keywords) : keywords[j][1] = keywords[k][1] => j = k
    /\ (lpc = "return" /\ result.success) =>
           /\ result.keywords = keywords
           /\ {keywords[j][1] : j \in 1..Len(keywords)} = RecordNames(kw_list)

\* C7 witness: a list with a named entry between two entries without a name.
C7_Witness ==
    /\ lpc = "return"
    /\ kw_list = <<EntryEmptyName, EntryDoc>>
    /\ result.success
    /\ Len(result.keywords) = 1
    /\ result.keywords[1][1] = <<"D">>

\* ------------------------------------------------ claims on the section parser
IsHeadingStart(e) == e.kind = "start" /\ e.tag \in HeadingTags
IsHeadingEnd(e) == e.kind = "end" /\ e.tag \in HeadingTags

\* The heading start tags fed so far, in document order.
HeadingsFed == SelectSeq(fed, IsHeadingStart)

\* C4: after the feed and one get_sections call there is one section for each
\* heading start tag of rank h1..h4, in document order, the i-th with the
\* rank and the id of the i-th heading; a document without a heading gives
\* the empty sequence.
C4_OneSectionPerHeading ==
    ppc = "done" =>
        /\ Len(returned) = Len(HeadingsFed)
        /\ \A j \in 1..Len(returned) :
               /\ returned[j].level = TagRank(HeadingsFed[j].tag)
               /\ returned[j].id = AttrsGet(HeadingsFed[j].attrs, "id", "")

\* C4 witness: an h2 heading with text, then an h1 heading: two sections of
\* levels 2 and 1.
C4_Witness ==
    /\ ppc = "done"
    /\ Len(fed) = 4
    /\ Len(returned) = 2
    /\ returned[1].level = 2
    /\ returned[1].id = "intro"
    /\ returned[2].level = 1
    /\ fed[2].kind = "end"
    /\ fed[3].kind = "data"

\* The position in fed of the last heading start tag, 0 when there is none.
LastHeadingStart ==
    IF \E j \in 1..Len(fed) : IsHeadingStart(fed[j])
    THEN CHOOSE j \in 1..Len(fed) :
             /\ IsHeadingStart(fed[j])
             /\ \A k \in (j + 1)..Len(fed) : ~IsHeadingStart(fed[k])
    ELSE 0

\* The trimmed text fragments between the last heading start tag and its
\* end tag (or the end of what was fed).
TitleFragments ==
    LET from == LastHeadingStart + 1
        to == IF \E k \in from..Len(fed) : IsHeadingEnd(fed[k])
              THEN (CHOOSE k \in from..Len(fed) :
                        /\ IsHeadingEnd(fed[k])
                        /\ \A l \in from..(k - 1) : ~IsHeadingEnd(fed[l])) - 1
              ELSE Len(fed)
        IsData(e) == e.kind = "data"
        inside == SelectSeq(SubSeq(fed, from, to), IsData)
    IN  [j \in 1..Len(inside) |-> Strip(inside[j].data)]

FirstNonEmpty(frs) ==
    IF \E j \in 1..Len(frs) : frs[j] # <<>>
    THEN frs[CHOOSE j \in 1..Len(frs) :
                 /\ frs[j] # <<>>
                 /\ \A k \in 1..(j - 1) : frs[k] = <<>>]
    ELSE <<>>

\* C5: the title of a section is the first non-empty trimmed text fragment
\* between the heading's start tag and its end tag; the later fragments
\* inside the heading leave it unchanged.
C5_TitleIsFirstFragment ==
    (ppc = "feed" /\ LastHeadingStart > 0) =>
        parser.current_section.title = FirstNonEmpty(TitleFragments)

\* ------------------------------------------------- claims on the refresh cycle
AllDocuments == {UserGuide} \cup LibrarySet

\* The keys of a dictionary kept as a sequence of pairs.
Keys(d) == {d[j][1] : j \in 1..Len(d)}

ValueOf(d, key) == d[CHOOSE j \in 1..Len(d) : d[j][1] = key][2]

\* The libraries whose cached file parses.
ParsingLibraries ==
    {name \in LibrarySet :
         RecGet(ParseLibraryFile(name, library_files[name]), "success", FALSE)}

RECURSIVE KeywordCount(_)
KeywordCount(libs) ==
    IF libs = <<>> THEN 0 ELSE Len(Head(libs)[2]) + KeywordCount(Tail(libs))

\* C8: when the call returns, every library with a file was parsed and has
\* its own entry in the result map, whatever happened to the libraries
\* before it; and if at least one library parsed, the keyword index written
\* by this call holds exactly the libraries that parsed, total_keywords being
\* the number of their keywords.
C8_PartialFailureIsolation ==
    fpc = "return" =>
        /\ lib_pos = Len(Libraries) + 1
        /\ LibrarySet \subseteq attempted \cup parsed
        /\ \A name \in LibrarySet :
               library_files[name].exists =>
                   /\ name \in parsed
                   /\ name \in Keys(results.libraries)
                   /\ ValueOf(results.libraries, name).success
                          = (name \in ParsingLibraries)
        /\ ParsingLibraries # {} =>
               /\ "KEYWORDS_INDEX" \in written
               /\ keywords_index_file.content.parsed_at = calls
               /\ Keys(keywords_index_file.content.libraries) = ParsingLibraries
               /\ keywords_index_file.content.total_libraries = Cardinality(ParsingLibraries)
               /\ keywords_index_file.content.total_keywords
                      = KeywordCount(keywords_index_file.content.libraries)
               /\ \A name \in ParsingLibraries :
                      /\ ValueOf(keywords_index_file.content.libraries, name)
                             = ParseLibraryFile(name, library_files[name]).keywords
                      /\ ValueOf(results.libraries, name).total_keywords
                             = Len(ParseLibraryFile(name, library_files[name]).keywords)

\* C8 witness: the first library's file does not parse, the second has two
\* keywords: the index holds the second library only and counts two.
C8_Witness ==
    /\ fpc = "return"
    /\ library_files[Libraries[1]] = TextFile(PageUnclosed)
    /\ library_files[Libraries[2]] = TextFile(PageTwoKeywords)
    /\ ~ValueOf(results.libraries, Libraries[1]).success
    /\ ValueOf(results.libraries, Libraries[2]).success
    /\ Keys(keywords_index_file.content.libraries) = {Libraries[2]}
    /\ keywords_index_file.content.total_keywords = 2

\* C9: when the call returns, the result map has an entry for every standard
\* library, a library whose download failed included.
C9_EveryLibraryReported ==
    fpc = "return" => Keys(results.libraries) = LibrarySet

\* The re-fetch policy: a document is downloaded exactly if force_refresh is
\* set or its file was absent, and parsed exactly if its file exists after
\* the download step.
RefetchPolicy ==
    /\ attempted = {d \in AllDocuments : force_refresh \/ d \notin cached_at_call}
    /\ parsed = CachedNow

DownloadFailedNow ==
    {d \in attempted :
         \A j \in 1..Len(results.files_downloaded) : results.files_downloaded[j] # d}

\* C11: the success flag the call returns is true exactly if the user guide
\* was downloaded by this call or was taken from the cache, whatever
\* happened to the libraries.
C11_SuccessIsUserGuideSuccess ==
    fpc = "return" => results.success = (UserGuide \notin DownloadFailedNow)

\* C11 witness: the user guide succeeded, one library did not parse and the
\* other could not be downloaded: the flag is true.
C11_Witness ==
    /\ fpc = "return"
    /\ results.success = TRUE
    /\ UserGuide \notin DownloadFailedNow
    /\ Keys(results.libraries) = {Libraries[1]}
    /\ ~ValueOf(results.libraries, Libraries[1]).success
    /\ Libraries[2] \in DownloadFailedNow

\* C20: a library whose download attempt failed in this call is not parsed
\* and is not added to the keyword aggregate in this call.
C20_DownloadFailedIsTerminal ==
    \A name \in LibrarySet :
        name \in DownloadFailedNow =>
            /\ name \notin parsed
            /\ name \notin Keys(all_keywords)

\* ---------------------------------------------------------- claims on search
SearchReturned ==
    /\ tpc = "done"
    /\ tool_call.tool = "search_rf_documentation"
    /\ index_file.exists

\* The positions at which sub occurs in s.
Occurrences(s, sub) ==
    {p \in 1..(Len(s) - Len(sub) + 1) : SubSeq(s, p, p + Len(sub) - 1) = sub}

\* The largest number of occurrences of sub in s no two of which overlap;
\* occurrences of the empty string never overlap.
DisjointOccurrences(s, sub) ==
    IF sub = <<>> THEN Cardinality(Occurrences(s, sub))
    ELSE LET disjoint == {P \in SUBSET Occurrences(s, sub) :
                             \A p1, p2 \in P : p1 < p2 => p2 - p1 >= Len(sub)}
         IN  CHOOSE n \in 0..Len(s) :
                 /\ \E P \in disjoint : Cardinality(P) = n
                 /\ \A P \in disjoint : Cardinality(P) <= n

\* For the sections of the index from position j on: whether the section
\* contains the query, and its relevance.
RECURSIVE Rated(_, _, _)
Rated(sections, query_lower, j) ==
    IF j > Len(sections) THEN <<>>
    ELSE LET title == lower(sections[j].title)
             content == lower(sections[j].content)
         IN  <<[hit |-> \/ Occurrences(title, query_lower) # {}
                        \/ Occurrences(content, query_lower) # {},
                relevance |-> 10 * DisjointOccurrences(title, query_lower)
                                  + DisjointOccurrences(content, query_lower)]>>
                 \o Rated(sections, query_lower, j + 1)

\* The one-element set of the ratings of the index for the query called.
Ratings == {Rated(index_file.content.sections, lower(tool_call.query), 1)}

Matching(rated) == {j \in 1..Len(rated) : rated[j].hit}

\* Entry r of the results is the entry of the section at position j.
EntryOf(r, rated, j) ==
    /\ r.title = index_file.content.sections[j].title
    /\ r.id = index_file.content.sections[j].id
    /\ r.level = index_file.content.sections[j].level
    /\ r.relevance = rated[j].relevance

\* The place of section j in the ranking: behind the matching sections of
\* greater relevance and those of equal relevance that come before it in
\* the index.
Rank(rated, j) ==
    1 + Cardinality({k \in Matching(rated) :
                         \/ rated[k].relevance > rated[j].relevance
                         \/ rated[k].relevance = rated[j].relevance /\ k < j})

\* C12: the sections matched are exactly those whose lower-cased title or
\* content contains the lower-cased query, and the relevance of each is ten
\* times the number of (non-overlapping) occurrences in its title plus the
\* number in its content.
C12_MatchAndRelevance ==
    SearchReturned =>
        \A rated \in Ratings :
            /\ tool_result.total_matches = Cardinality(Matching(rated))
            /\ \A k \in 1..Len(tool_result.results) :
                   \E j \in Matching(rated) : EntryOf(tool_result.results[k], rated, j)
            /\ tool_call.max_results >= Cardinality(Matching(rated)) =>
                   \A j \in Matching(rated) :
                       \E k \in 1..Len(tool_result.results) :
                           EntryOf(tool_result.results[k], rated, j)

\* C12 witness: the sections 'Run Keyword' / 'run a keyword' and 'x' /
\* 'run run' with the query 'run' score 11 and 2.
C12_Witness ==
    /\ SearchReturned
    /\ index_file.content.sections = <<SectionRunKeyword, SectionRunRun>>
    /\ tool_call.query = <<"r", "u", "n">>
    /\ tool_call.max_results = 10
    /\ tool_result.total_matches = 2
    /\ tool_result.results[1].title = SectionRunKeyword.title
    /\ tool_result.results[1].relevance = 11
    /\ tool_result.results[2].title = SectionRunRun.title
    /\ tool_result.results[2].relevance = 2

\* C13: the results are in order of non-increasing relevance, and sections of
\* equal relevance are in the order of the index.
C13_RankedStably ==
    SearchReturned =>
        \A rated \in Ratings :
            /\ \A k \in 1..(Len(tool_result.results) - 1) :
                   tool_result.results[k].relevance >= tool_result.results[k + 1].relevance
            /\ \A j \in Matching(rated) :
                   Rank(rated, j) <= Len(tool_result.results) =>
                       EntryOf(tool_result.results[Rank(rated, j)], rated, j)

\* C13 witness: two sections of relevance 1 around one of relevance 11.
C13_Witness ==
    /\ SearchReturned
    /\ index_file.content.sections = <<SectionARun, SectionRunKeyword, SectionUpperRun>>
    /\ tool_call.query = <<"R", "U", "N">>
    /\ tool_call.max_results = 10
    /\ Len(tool_result.results) = 3
    /\ tool_result.results[1].relevance = 11
    /\ tool_result.results[2].relevance = 1
    /\ tool_result.results[2].content_preview = SectionARun.content \o Ellipsis
    /\ tool_result.results[3].relevance = 1
    /\ tool_result.results[3].content_preview = SectionUpperRun.content \o Ellipsis

Min(a, b) == IF a < b THEN a ELSE b

\* C14: total_matches is the number of matching sections whatever the cap,
\* and the results are the first min(max_results, total_matches) entries of
\* the ranking, never more than max_results.
C14_CappedResults ==
    SearchReturned =>
        \A rated \in Ratings :
            /\ tool_result.total_matches = Cardinality(Matching(rated))
            /\ Len(tool_result.results)
                   = Min(tool_call.max_results, tool_result.total_matches)
            /\ Len(tool_result.results) <= tool_call.max_results
            /\ \A j \in Matching(rated) :
                   Rank(rated, j) <= Len(tool_result.results) =>
                       EntryOf(tool_result.results[Rank(rated, j)], rated, j)

\* ------------------------------------------------- claims on keyword lookup
\* get_keyword_documentation returned, and the keyword index was there when
\* it was called.
LookupReturned ==
    /\ tpc = "done"
    /\ tool_call.tool = "get_keyword_documentation"
    /\ calls = 0
    /\ keywords_index_file.exists

StoredLibraries == keywords_index_file.content.libraries

\* A name with its letters in lower case and every "_" and "-" a space.
FoldName(name) ==
    [j \in 1..Len(name) |->
        IF name[j] \in {"_", "-"} THEN " " ELSE lower(<<name[j]>>)[1]]

\* The places (library l, keyword j) of the index that the call searches and
\* whose name folds to the folded name asked for.
MatchingPlaces ==
    {pl \in {<<l, j>> : l \in 1..Len(StoredLibraries), j \in 1..MaxStored + 1} :
         /\ pl[2] <= Len(StoredLibraries[pl[1]][2])
         /\ tool_call.library_name \in {"", StoredLibraries[pl[1]][1]}
         /\ FoldName(StoredLibraries[pl[1]][2][pl[2]][1]) = FoldName(tool_call.keyword_name)}

\* The result is the keyword at place pl.
ResultAt(pl) ==
    /\ tool_result.library = StoredLibraries[pl[1]][1]
    /\ tool_result.keyword = StoredLibraries[pl[1]][2][pl[2]][1]
    /\ tool_result.documentation = StoredLibraries[pl[1]][2][pl[2]][2].doc

ScopeInIndex ==
    tool_call.library_name \in {""} \cup Keys(StoredLibraries)

\* C15: the lookup finds a keyword exactly if a stored name and the name
\* asked for are equal after lower-casing and replacing "_" and "-" by a
\* space, and the keyword it returns is such a stored keyword.
C15_FoldedExactMatch ==
    (LookupReturned /\ ScopeInIndex) =>
        /\ "available" \in DOMAIN tool_result
        /\ tool_result.available = (MatchingPlaces # {})
        /\ tool_result.available => \E pl \in MatchingPlaces : ResultAt(pl)

\* C15 witness: 'get_length' resolves to the stored 'Get Length', next to the
\* stored 'Get Lengths'.
C15_Witness ==
    /\ LookupReturned
    /\ tool_call.keyword_name = <<"g", "e", "t", "_", "l", "e", "n", "g", "t", "h">>
    /\ tool_call.library_name = ""
    /\ Len(StoredLibraries) = 1
    /\ Len(StoredLibraries[1][2]) = 2
    /\ StoredLibraries[1][2][1][1] = <<"G", "e", "t", " ", "L", "e", "n", "g", "t", "h", "s">>
    /\ tool_result.available
    /\ tool_result.keyword = <<"G", "e", "t", " ", "L", "e", "n", "g", "t", "h">>

\* C16: with a library name that is not in the index the call returns the
\* library-not-found error with the libraries of the index; with one that
\* is in the index it returns a keyword of that library or available = false.
C16_LibraryScope ==
    (LookupReturned /\ tool_call.library_name # "") =>
        IF tool_call.library_name \notin Keys(StoredLibraries)
        THEN /\ DOMAIN tool_result = {"error", "available_libraries"}
             /\ tool_result.error = "Library not found"
             /\ tool_result.available_libraries
                    = [j \in 1..Len(StoredLibraries) |-> StoredLibraries[j][1]]
        ELSE /\ "error" \notin DOMAIN tool_result
             /\ "available" \in DOMAIN tool_result
             /\ tool_result.available => tool_result.library = tool_call.library_name
             /\ ~tool_result.available => tool_result.keyword = tool_call.keyword_name

\* C16 witness: the keyword is in the second library; the call scoped to the
\* first returns available = false.
C16_Witness ==
    /\ LookupReturned
    /\ tool_call.library_name = Libraries[1]
    /\ tool_call.keyword_name = <<"l", "o", "g">>
    /\ Len(StoredLibraries) = 2
    /\ StoredLibraries[1][2] = <<>>
    /\ Len(StoredLibraries[2][2]) = 1
    /\ StoredLibraries[2][2][1][1] = <<"L", "o", "g">>
    /\ tool_result.available = FALSE

\* C17: of the stored keywords that match, an unscoped call returns the
\* first one: that of the first library with a match and, in it, the first
\* in insertion order.
C17_FirstMatchWins ==
    (LookupReturned /\ tool_call.library_name = "" /\ MatchingPlaces # {}) =>
        \E pl \in MatchingPlaces :
            /\ ResultAt(pl)
            /\ \A other \in MatchingPlaces :
                   \/ pl[1] < other[1]
                   \/ pl[1] = other[1] /\ pl[2] <= other[2]

\* C17 witness: 'get_length' and 'Get Length' in the first library and
\* 'Get Length' in the second: 'Get-Length' returns the first of the three.
C17_Witness ==
    /\ LookupReturned
    /\ tool_call.library_name = ""
    /\ tool_call.keyword_name = <<"G", "e", "t", "-", "L", "e", "n", "g", "t", "h">>
    /\ Cardinality(MatchingPlaces) = 3
    /\ tool_result.library = Libraries[1]
    /\ tool_result.keyword = <<"g", "e", "t", "_", "l", "e", "n", "g", "t", "h">>
    /\ StoredLibraries[1][2][1][1] = tool_result.keyword

\* C18: a result that reports a failure carries success = false and an error
\* string; a search without a section index is such a failure.
C18_FailuresCarrySuccessFalse ==
    tpc = "done" =>
        /\ "error" \in DOMAIN tool_result =>
               "success" \in DOMAIN tool_result /\ tool_result.success = FALSE
        /\ (tool_call.tool = "search_rf_documentation" /\ ~index_file.exists) =>
               /\ {"success", "error"} \subseteq DOMAIN tool_result
               /\ tool_result.success = FALSE

\* C19: no step of a call of search_rf_documentation,
\* get_keyword_documentation or check_keyword_availability changes the
\* section index, the keyword index or a cached document.
C19_LookupsAreReadOnly ==
    [][UNCHANGED <<docs_file, library_files, index_file, keywords_index_file>>]_vars

\* ------------------------------------------- claims on the rebuilt snapshots
\* C21: when a call returns success = true, the keyword index on disk is the
\* one this call wrote: it holds the libraries that parsed in this call and
\* nothing of an earlier call, also when no library parsed in this call.
C21_IndexRebuiltEveryCycle ==
    (fpc = "return" /\ results.success = TRUE /\ keywords_index_file.exists) =>
        /\ keywords_index_file.content.parsed_at = calls
        /\ Keys(keywords_index_file.content.libraries) = ParsingLibraries

\* The positions in fed of the heading start tags.
HeadingStarts == {j \in 1..Len(fed) : IsHeadingStart(fed[j])}

\* The position of the k-th heading start tag.
KthHeadingStart(k) ==
    CHOOSE j \in HeadingStarts : Cardinality({h \in HeadingStarts : h <= j}) = k

\* The position of the next heading start tag after position s, or the end
\* of the input.
NextHeadingStart(s) ==
    IF \E j \in HeadingStarts : j > s
    THEN CHOOSE j \in HeadingStarts : j > s /\ \A h \in HeadingStarts : h > s => j <= h
    ELSE Len(fed) + 1

\* The position of the end tag that closes the heading opened at s: the
\* first heading end tag before the next heading start tag; without one the
\* heading stays open up to there.
HeadingClose(s) ==
    LET ends == {k \in (s + 1)..(NextHeadingStart(s) - 1) : IsHeadingEnd(fed[k])}
    IN  IF ends = {} THEN NextHeadingStart(s)
        ELSE CHOOSE k \in ends : \A l \in ends : k <= l

\* The non-empty trimmed text fragments after the heading opened at s was
\* closed and before the next heading start tag, in document order.
ContentFragments(s) ==
    LET IsText(e) == e.kind = "data" /\ Strip(e.data) # <<>>
        texts == SelectSeq(SubSeq(fed, HeadingClose(s) + 1, NextHeadingStart(s) - 1), IsText)
    IN  [j \in 1..Len(texts) |-> Strip(texts[j].data)]

\* C22: the content of the k-th section is the non-empty trimmed text
\* fragments after the k-th heading's end tag and before the next heading
\* start tag (or the end of the input), in document order, joined by single
\* spaces: no text inside a heading and no text before the first heading is
\* in it, and the text after the last heading is in the last section.
C22_ContentBetweenHeadings ==
    ppc = "done" =>
        /\ Len(returned) = Cardinality(HeadingStarts)
        /\ \A k \in 1..Len(returned) :
               returned[k].content = Join(ContentFragments(KthHeadingStart(k)), <<" ">>)

\* C22 witness: text before the heading, the heading, and two fragments
\* after it: the one section's content is the two fragments joined.
C22_Witness ==
    /\ ppc = "done"
    /\ Len(fed) = 4
    /\ fed[1].kind = "start" /\ fed[1].tag = "h2"
    /\ fed[2].kind = "end" /\ fed[2].tag = "h2"
    /\ fed[3] = DataEvent(<<"a">>)
    /\ fed[4] = DataEvent(<<" ", "b", " ">>)
    /\ Len(returned) = 1
    /\ returned[1].content = <<"a", " ", "b">>

\* The number of calls of one function on one document in this call of
\* fetch_rf_documentation.
CallsOf(event) == Cardinality({j \in 1..Len(trace) : trace[j] = event})

\* Each document is downloaded at most once and parsed at most once, and
\* never downloaded after it was parsed.
AtMostOnce ==
    \A d \in AllDocuments :
        /\ CallsOf(DownloadOf(d)) <= 1
        /\ CallsOf(ParseOf(d)) <= 1
        /\ \A j, k \in 1..Len(trace) :
               (trace[j] = ParseOf(d) /\ trace[k] = DownloadOf(d)) => k < j

\* The result the call returns tells of every download and every parse of
\* this call that failed.
FailuresReported ==
    fpc = "return" =>
        /\ UserGuide \in DownloadFailedNow => results.user_guide.success = FALSE
        /\ (UserGuide \in parsed /\ ~docs_file.decodable) => results.indexing.success = FALSE
        /\ \A name \in LibrarySet :
               (name \in DownloadFailedNow \/ (name \in parsed /\ name \notin ParsingLibraries))
                   => /\ name \in Keys(results.libraries)
                      /\ ~ValueOf(results.libraries, name).success

\* C23: within one call each document's download is attempted at most once
\* and each document's parse at most once, and a download or parse that
\* failed is reported in the result of the call.
C23_NoRetries ==
    AtMostOnce /\ FailuresReported

\* ------------------------------------------- claims on the tools' edge cases
\* C25: a search for the empty string reports as many matches as the index
\* has sections, whatever the sections hold.
C25_EmptyQueryMatchesAll ==
    (SearchReturned /\ tool_call.query = <<>>) =>
        tool_result.total_matches = Len(index_file.content.sections)

\* C25 witness: the empty query on an index of three sections, one of them
\* with an empty title and an empty content: three matches.
C25_Witness ==
    /\ SearchReturned
    /\ tool_call.query = <<>>
    /\ tool_call.max_results = 10
    /\ Len(index_file.content.sections) = 3
    /\ index_file.content.sections[2] = SectionEmpty
    /\ tool_result.total_matches = 3
    /\ Len(tool_result.results) = 3

\* The lookup of the call could not be performed: the keyword index was
\* absent and the fetch failed or left it absent.
LookupNotPerformed ==
    /\ calls > 0
    /\ fpc = "return"
    /\ ~RecGet(results, "success", FALSE) \/ ~keywords_index_file.exists

\* C26: check_keyword_availability reports available = true, with the
\* library and the stored name, exactly if the lookup finds the keyword;
\* when the lookup could not be performed its result carries the error and
\* its message does not say that the keyword is available.
C26_AvailabilityTellsErrors ==
    (tpc = "done" /\ tool_call.tool = "check_keyword_availability") =>
        IF LookupNotPerformed
        THEN /\ "error" \in DOMAIN tool_result
             /\ tool_result.message
                    # [text |-> "Keyword is available in library",
                       keyword |-> None, library |-> None]
        ELSE /\ tool_result.available = (MatchingPlaces # {})
             /\ tool_result.available =>
                    \E pl \in MatchingPlaces :
                        /\ tool_result.library = StoredLibraries[pl[1]][1]
                        /\ tool_result.keyword_actual_name
                               = StoredLibraries[pl[1]][2][pl[2]][1]

\* ------------------------------------------------------ claims on invariants
\* The scan ended at the closing brace of the object.
ScanSucceeded == lpc \notin {"idle", "search", "scan"} /\ libdoc_json # <<>>

\* C28: depth is 0 before the marker's opening brace is consumed and when
\* the scan has ended at the closing brace; in between, and when the text
\* ends first, it is at least 1; it is never negative, and the scan ends at
\* the first position that brings depth back to 0 and goes no further.
C28_DepthInvariant ==
    /\ depth >= 0
    /\ lpc = "scan" => (depth = 0) = (i = start_pos)
    /\ (lpc = "return" /\ result = UnbalancedResult) =>
           depth >= 1 /\ i = Len(html_content) + 1
    /\ ScanSucceeded =>
           /\ depth = 0
           /\ i \in start_pos..Len(html_content)
           /\ html_content[i] = "}"
           /\ libdoc_json = SubSeq(html_content, start_pos, i)

\* C28 witness: the object {{}} was extracted and two more characters, the
\* last a closing brace, were left unread.
C28_Witness ==
    /\ lpc = "loads"
    /\ depth = 0
    /\ i = start_pos + 3
    /\ Len(html_content) = i + 2
    /\ html_content[start_pos + 1] = "{"
    /\ html_content[Len(html_content)] = "}"

\* The "keywords" list of each library page of the refresh cycle.
PageEntries(text) ==
    IF text = PageOneKeyword THEN <<EntryA>>
    ELSE IF text = PageTwoKeywords THEN <<EntryA, EntryDoc>>
    ELSE IF text = PageRepeatedName THEN <<EntryA, EntryAgain>>
    ELSE <<>>

\* C29: the totals written are the sizes of what is written with them: in
\* the keyword index total_keywords is the sum of the libraries' numbers of
\* records and total_libraries the number of libraries, in the section
\* index total_sections is the number of sections, and a library's
\* total_keywords in the result is the number of different names in its
\* "keywords" list.
C29_CountsConsistent ==
    /\ keywords_index_file.exists =>
           /\ keywords_index_file.content.total_keywords
                  = KeywordCount(keywords_index_file.content.libraries)
           /\ keywords_index_file.content.total_libraries
                  = Len(keywords_index_file.content.libraries)
           /\ \A j \in 1..Len(keywords_index_file.content.libraries) :
                  Len(keywords_index_file.content.libraries[j][2])
                      = Cardinality(Keys(keywords_index_file.content.libraries[j][2]))
    /\ index_file.exists =>
           index_file.content.total_sections = Len(index_file.content.sections)
    /\ \A j \in 1..Len(results.libraries) :
           results.libraries[j][2].success =>
               results.libraries[j][2].total_keywords
                   = Cardinality(RecordNames(
                         PageEntries(library_files[results.libraries[j][1]].content)))
    /\ (fpc = "return" /\ "KEYWORDS_INDEX" \in written) =>
           /\ results.keywords_index.total_keywords
                  = keywords_index_file.content.total_keywords
           /\ results.keywords_index.total_libraries
                  = keywords_index_file.content.total_libraries

\* C29 witness: the first library's list names one keyword twice, the
\* second has two keywords: three records in all, the repeated name counted
\* once and holding the later entry.
C29_Witness ==
    /\ fpc = "return"
    /\ library_files[Libraries[1]] = TextFile(PageRepeatedName)
    /\ library_files[Libraries[2]] = TextFile(PageTwoKeywords)
    /\ results.libraries[1][2].total_keywords = 1
    /\ keywords_index_file.content.total_keywords = 3
    /\ keywords_index_file.content.total_libraries = 2
    /\ keywords_index_file.content.libraries[1][2][1][2].doc = <<"z">>
    /\ index_file.exists
    /\ index_file.content.total_sections = 2

\* ------------------------------------------------- claims on run_robocop_audit
\* A path is DEFAULT_TESTS itself or a path below it.
InsideTests(path) ==
    \/ path = DEFAULT_TESTS
    \/ /\ Len(path) > Len(DEFAULT_TESTS) + 1
       /\ SubSeq(path, 1, Len(DEFAULT_TESTS) + 1) = DEFAULT_TESTS \o <<"/">>
       /\ \A j \in 1..(Len(path) - 1) : ~(path[j] = "." /\ path[j + 1] = ".")

\* C27: every path given to the robocop subprocess is DEFAULT_TESTS or a
\* path below it; a target that resolves to any other path gets the
\* invalid-path result, and no subprocess is run for it.
C27_PathConfinement ==
    /\ \A j \in 1..Len(handed) : InsideTests(handed[j])
    /\ (apc = "done" /\ ~InsideTests(safe_path)) =>
           /\ handed = <<>>
           /\ audit_result = InvalidPathResult(target_path)

\* ------------------------------------------- claims on refreshes run together
\* A file that holds one whole index, as one refresh wrote it.
WholeSnapshot(file) ==
    /\ file.exists
    /\ file.decodable
    /\ DOMAIN file = DOMAIN NoFile
    /\ file.content.parsed_at \in 0..MaxRefreshers

\* C24: whatever the refreshes and the readers do in between each other's
\* steps, a reader finds each index file absent or holding one whole index
\* written by one refresh, and when all refreshes have returned each index
\* file holds the whole index of one of them.
C24_SnapshotsReadWhole ==
    /\ observed # None => (~observed.read.exists \/ WholeSnapshot(observed.read))
    /\ (\A p \in Refreshers : refresh[p].pc = "return") =>
           /\ \E p \in Refreshers : index_file = refresh[p].index
           /\ keywords_index_file.exists => WholeSnapshot(keywords_index_file)

====
